---- MODULE Spec2Model ----
(***************************************************************************)
(* Model of the interactive record-mutation helpers of the research        *)
(* database toolkit (database_crud_functions.py): add_entry, update_entry, *)
(* delete_entry, new_lex and the foreign-key resolver, over a relational   *)
(* store with primary-key, NOT NULL and foreign-key constraints.           *)
(*                                                                         *)
(* Console input is a sequence of characters; every prompt is one action   *)
(* whose input is drawn from a small set of raw lines.  A cell of a row is *)
(* NULL, I(n) (an integer) or S(s) (a text, s a sequence of characters).   *)
(***************************************************************************)
EXTENDS Integers, Sequences, FiniteSets, TLC

VARIABLES db, txn, pc, loc, ret, calls

vars == <<db, txn, pc, loc, ret, calls>>

(***************************************************************************)
(* Bounds of the model.                                                    *)
(***************************************************************************)
\* number of top-level calls one session makes in a behaviour
MaxCalls == 2

\* number of add_entry calls each of the two concurrent sessions makes
MaxConcCalls == 1

\* the sessions; Spec runs session 1 alone, SpecConc runs both
Procs == {1, 2}

(***************************************************************************)
(* Values.                                                                 *)
(***************************************************************************)
NULL == <<"null">>
I(n) == <<"int", n>>
S(s) == <<"str", s>>
IsStr(v) == v[1] = "str"
IsInt(v) == v[1] = "int"
\* Python truthiness of a cell: None, 0 and '' are false
Truthy(v) == IF v = NULL THEN FALSE ELSE IF IsInt(v) THEN v[2] # 0 ELSE v[2] # <<>>

(***************************************************************************)
(* Strings: str.strip, str.lower, str.isdigit, int().                      *)
(***************************************************************************)
RECURSIVE LStrip(_)
LStrip(s) == IF s # <<>> /\ Head(s) = " " THEN LStrip(Tail(s)) ELSE s

RECURSIVE RStrip(_)
RStrip(s) == IF s # <<>> /\ s[Len(s)] = " " THEN RStrip(SubSeq(s, 1, Len(s) - 1)) ELSE s

Strip(s) == RStrip(LStrip(s))

LowerChar(c) ==
    CASE c = "A" -> "a" [] c = "B" -> "b" [] c = "C" -> "c" [] c = "D" -> "d"
      [] c = "E" -> "e" [] c = "L" -> "l" [] c = "N" -> "n" [] c = "Q" -> "q"
      [] c = "S" -> "s" [] c = "T" -> "t" [] c = "U" -> "u" [] c = "Y" -> "y"
      [] c = "Z" -> "z" [] OTHER -> c

Lower(s) == [i \in 1..Len(s) |-> LowerChar(s[i])]

Digits == <<"0", "1", "2", "3", "4", "5", "6", "7", "8", "9">>

IsDigit(s) == s # <<>> /\ \A i \in 1..Len(s) : \E d \in 1..10 : Digits[d] = s[i]

DigitVal(c) == (CHOOSE d \in 1..10 : Digits[d] = c) - 1

RECURSIVE ToInt(_)
ToInt(s) == IF s = <<>> THEN 0 ELSE 10 * ToInt(SubSeq(s, 1, Len(s) - 1)) + DigitVal(s[Len(s)])

\* `input(...).strip().lower()`
StripLower(s) == Lower(Strip(s))

(***************************************************************************)
(* Schema of the store, as PRAGMA table_info / foreign_key_list report it. *)
(***************************************************************************)
\* sqlite_master ORDER BY name
all_tables == <<"bibliography", "definitions", "lexicon">>

TableSet == {all_tables[i] : i \in 1..Len(all_tables)}

Col(name, type, notnull, pk) == [name |-> name, type |-> type, notnull |-> notnull, pk |-> pk]

table_info(t) ==
    CASE t = "bibliography" ->
            << Col("UID", "INTEGER", 1, 1), Col("Title", "TEXT", 1, 0),
               Col("Citation", "TEXT", 0, 0) >>
      [] t = "lexicon" ->
            << Col("UID", "INTEGER", 1, 1), Col("Term", "TEXT", 1, 0) >>
      [] t = "definitions" ->
            << Col("UID", "INTEGER", 1, 1), Col("Lexicon_ID", "INTEGER", 1, 0),
               Col("Definition", "TEXT", 0, 0), Col("Source_ID", "INTEGER", 0, 0) >>
      [] OTHER -> << >>

Fk(from, table, to, on_delete) ==
    [from |-> from, table |-> table, to |-> to, on_delete |-> on_delete]

foreign_key_list(t) ==
    CASE t = "definitions" ->
            << Fk("Lexicon_ID", "lexicon", "UID", "NO ACTION"),
               Fk("Source_ID", "bibliography", "UID", "SET NULL") >>
      [] OTHER -> << >>

column_names(t) == [i \in 1..Len(table_info(t)) |-> table_info(t)[i].name]

ColSet(t) == {table_info(t)[i].name : i \in 1..Len(table_info(t))}

fk_column_names(t) == {foreign_key_list(t)[i].from : i \in 1..Len(foreign_key_list(t))}

SYSTEM_FIELDS ==
    {"UID", "Created_At", "Modified_At", "Timestamp", "Timestamp_Created",
     "Timestamp_Modified", "Time_Stamp", "Date_Created", "Date_Modified"}

TABLE_SPECIFIC_IGNORES(t) ==
    IF t = "bibliography" THEN {"Citation", "Short_Citation"} ELSE {}

\* faulty variant: only the global system fields are skipped
should_skip_field_system_only(table_name, field_name) == field_name \in SYSTEM_FIELDS

should_skip_field(table_name, field_name) ==
    \/ field_name \in SYSTEM_FIELDS
    \/ field_name \in TABLE_SPECIFIC_IGNORES(table_name)

SKIP_SEARCH_COLUMNS ==
    SYSTEM_FIELDS \cup {"Latitude", "Longitude", "Date_Birth", "Date_Death",
                        "Date_Start", "Date_End", "Date_Pub_Greg", "Date_Pub_Hij"}

(***************************************************************************)
(* Rows and tables.  A table is the sequence of its rows in rowid order.   *)
(***************************************************************************)
UidOf(row) == row["UID"][2]

Uids(rows) == {UidOf(rows[i]) : i \in 1..Len(rows)}

RowsWhere(rows, col, v) == SelectSeq(rows, LAMBDA r : r[col] = v)

EmptyRow(t) == [c \in ColSet(t) |-> NULL]

\* the row an INSERT naming the columns of `data` creates
MakeRow(t, data) ==
    [c \in ColSet(t) |-> IF c \in DOMAIN data THEN data[c] ELSE NULL]

(***************************************************************************)
(* The storage engine, as the code uses it: statements run with            *)
(* PRAGMA foreign_keys = ON, UID is the primary key.                       *)
(***************************************************************************)
PkOk(d, t, row) == UidOf(row) \notin Uids(d[t])

NotNullOk(t, row) ==
    \A i \in 1..Len(table_info(t)) :
        table_info(t)[i].notnull = 1 => row[table_info(t)[i].name] # NULL

FkOk(d, t, row) ==
    \A i \in 1..Len(foreign_key_list(t)) :
        LET fk == foreign_key_list(t)[i]
        IN  \/ row[fk.from] = NULL
            \/ \E j \in 1..Len(d[fk.table]) : d[fk.table][j][fk.to] = row[fk.from]

\* sqlite3.IntegrityError on INSERT
InsertRejected(d, t, row) == ~(PkOk(d, t, row) /\ NotNullOk(t, row) /\ FkOk(d, t, row))

InsertRow(d, t, row) ==
    LET before == SelectSeq(d[t], LAMBDA r : UidOf(r) < UidOf(row))
        after  == SelectSeq(d[t], LAMBDA r : UidOf(r) > UidOf(row))
    IN  [d EXCEPT ![t] = before \o <<row>> \o after]

\* the row `r` after SET of the columns of `updates`
Updated(r, updates) == [c \in DOMAIN r |-> IF c \in DOMAIN updates THEN updates[c] ELSE r[c]]

\* sqlite3.IntegrityError on UPDATE ... WHERE UID = uid
UpdateRejected(d, t, uid, updates) ==
    \E j \in 1..Len(d[t]) :
        /\ d[t][j]["UID"] = uid
        /\ ~(NotNullOk(t, Updated(d[t][j], updates)) /\ FkOk(d, t, Updated(d[t][j], updates)))

UpdateRows(d, t, uid, updates) ==
    [d EXCEPT ![t] = [j \in 1..Len(d[t]) |->
        IF d[t][j]["UID"] = uid THEN Updated(d[t][j], updates) ELSE d[t][j]]]

\* every declared foreign key: <<child table, fk>>
AllFks ==
    UNION {{<<ct, foreign_key_list(ct)[i]>> : i \in 1..Len(foreign_key_list(ct))} :
              ct \in TableSet}

\* the foreign keys declared against table t
FksAgainst(t) == {x \in AllFks : x[2].table = t}

ColNotNull(t, c) == \E i \in 1..Len(table_info(t)) :
                        table_info(t)[i].name = c /\ table_info(t)[i].notnull = 1

\* sqlite3.IntegrityError on DELETE ... WHERE UID = uid
DeleteRejected(d, t, uid) ==
    \E x \in FksAgainst(t) :
        /\ RowsWhere(d[x[1]], x[2].from, uid) # <<>>
        /\ \/ x[2].on_delete = "NO ACTION"
           \/ x[2].on_delete = "SET NULL" /\ ColNotNull(x[1], x[2].from)

DeleteRow(d, t, uid) ==
    [ct \in TableSet |->
        IF ct = t THEN SelectSeq(d[t], LAMBDA r : r["UID"] # uid)
        ELSE [j \in 1..Len(d[ct]) |->
                [c \in DOMAIN d[ct][j] |->
                    IF /\ d[ct][j][c] = uid
                       /\ \E x \in FksAgainst(t) :
                            x[1] = ct /\ x[2].from = c /\ x[2].on_delete = "SET NULL"
                    THEN NULL ELSE d[ct][j][c]]]]

(***************************************************************************)
(* Schema introspection helpers.                                           *)
(***************************************************************************)
\* SELECT MAX(UID) FROM table
MaxUid(rows) ==
    IF rows = <<>> THEN NULL
    ELSE I(CHOOSE m \in Uids(rows) : \A u \in Uids(rows) : u <= m)

\* faulty variant: `(max_uid or 1)` without the increment
get_next_uid_off(d, table_name) ==
    IF Truthy(MaxUid(d[table_name])) THEN MaxUid(d[table_name])[2] ELSE 1

get_next_uid(d, table_name) ==
    (IF Truthy(MaxUid(d[table_name])) THEN MaxUid(d[table_name])[2] ELSE 0) + 1

NoFk == [ref_table |-> "", ref_column |-> "", fk_column |-> ""]

\* faulty variant: a column that is not a foreign key resolves against the
\* first foreign key of the table, or against the table itself
get_fk_info_first(table_name, fk_column) ==
    LET fks == foreign_key_list(table_name)
    IN  IF fks = <<>>
        THEN [ref_table |-> table_name, ref_column |-> "UID", fk_column |-> fk_column]
        ELSE [ref_table |-> fks[1].table, ref_column |-> fks[1].to, fk_column |-> fk_column]

get_fk_info(table_name, fk_column) ==
    LET fks == foreign_key_list(table_name)
        hit == {i \in 1..Len(fks) : fks[i].from = fk_column}
    IN  IF hit = {} THEN NoFk
        ELSE LET i == CHOOSE k \in hit : \A m \in hit : k <= m
             IN  [ref_table |-> fks[i].table, ref_column |-> fks[i].to,
                  fk_column |-> fks[i].from]

is_column_required(col) ==
    IF col.pk = 1 \/ col.name \in SYSTEM_FIELDS THEN FALSE ELSE col.notnull = 1

(***************************************************************************)
(* Search: _normalize_search_term, the REGEXP callback, _search_in_table.  *)
(* A normalized pattern is a sequence of atoms: a literal character or an  *)
(* alternation of characters.                                              *)
(***************************************************************************)
REGEX_SPECIAL == {".", "^", "$", "*", "+", "?", "{", "}", "[", "]", "\\", "|", "(", ")"}

\* apostrophe-like characters are named by code point
\* the characters the substitution replaces, and the alternation it puts in
APOSTROPHE_CLASS == {"U+0027", "U+02BB", "U+0060"}
APOSTROPHE_PATTERN == {"U+0027", "U+02BB", "U+0060"}

Lit(c) == [kind |-> "lit", chars |-> {c}]

normalize_search_term(search_term) ==
    [i \in 1..Len(search_term) |->
        IF search_term[i] \in REGEX_SPECIAL THEN Lit(search_term[i])
        ELSE IF search_term[i] \in APOSTROPHE_CLASS
             THEN [kind |-> "alt", chars |-> APOSTROPHE_PATTERN]
             ELSE Lit(search_term[i])]

AtomMatches(a, c) ==
    IF a.kind = "alt" THEN c \in a.chars
    ELSE \E x \in a.chars : LowerChar(x) = LowerChar(c)

\* re.search(pattern, string, flags=re.IGNORECASE) is not None
regex_search_case_insensitive(pattern, string) ==
    IF ~IsStr(string) THEN FALSE
    ELSE \E off \in 0..(Len(string[2]) - Len(pattern)) :
            \A j \in 1..Len(pattern) : AtomMatches(pattern[j], string[2][off + j])

text_columns(ref_table) ==
    SelectSeq(table_info(ref_table),
              LAMBDA col : /\ col.name \notin SKIP_SEARCH_COLUMNS
                           /\ col.type \in {"TEXT", "VARCHAR", ""})

Limit(rows, n) == IF Len(rows) > n THEN SubSeq(rows, 1, n) ELSE rows

search_in_table(d, ref_table, search_term, max_results) ==
    LET normalized_term == normalize_search_term(search_term)
        cols == text_columns(ref_table)
    IN  IF cols = <<>> THEN <<>>
        ELSE Limit(SelectSeq(d[ref_table],
                       LAMBDA row : \E i \in 1..Len(cols) :
                           regex_search_case_insensitive(normalized_term, row[cols[i].name])),
                   max_results)

(***************************************************************************)
(* Console input: the raw lines a user may type at each prompt.            *)
(***************************************************************************)
\* `None` for a table_name / field_name argument
NoName == ""

TableArgs == TableSet \cup {NoName, "nosuch"}

MenuInputs == {<<"q">>, <<"Q">>, <<"1">>, <<" ", "2">>, <<"3">>, <<"4">>, <<"x">>, <<>>}

FieldInputs == {<<>>, <<" ">>, <<" ", "a", "b", " ">>}

SearchInputs == {<<>>, <<" ">>, <<"a">>, <<"B">>, <<"z">>}

RetryInputs == {<<"y">>, <<"Y">>, <<" ", "y">>, <<"n">>, <<"x">>, <<>>}

SelectInputs == {<<"s">>, <<"S">>, <<"c">>, <<>>, <<"0">>, <<"1">>, <<"2">>, <<"3">>, <<"x">>}

ConfirmInputs == {<<"y">>, <<"Y", " ">>, <<"n">>, <<"y", "e", "s">>, <<"e", "d", "i", "t">>, <<>>}

UidArgs == {NULL, I(1), I(2), I(7)}

FieldArgs == {NoName, "UID", "Title", "Citation", "Term", "Lexicon_ID", "Definition",
              "Source_ID", "nosuch"}

FieldChoiceInputs == {<<"d", "o", "n", "e">>, <<"D", "o", "n", "e", " ">>,
                      <<"c", "a", "n", "c", "e", "l">>, <<"1">>, <<"2">>, <<"3">>,
                      <<"4">>, <<"x">>, <<>>}

FkChangeInputs == {<<"y">>, <<"Y">>, <<"n">>, <<"n", "u", "l", "l">>, <<"x">>, <<>>}

NewValueInputs == {<<>>, <<" ", "a", "b">>, <<"n", "u", "l", "l">>,
                   <<"N", "U", "L", "L", " ">>}

TermArgs == {NULL, S(<<"a">>), S(<<"a", "b">>)}

SourceInputs == {<<>>, <<"1">>, <<" ", "7">>, <<"a">>, <<"z">>}

DELETE == <<"D", "E", "L", "E", "T", "E">>

DeleteConfirmInputs ==
    {DELETE, Lower(DELETE), DELETE \o <<" ">>, <<" ">> \o DELETE, DELETE \o <<"!">>,
     <<"y">>, <<>>}

\* default of max_results
DefaultMaxResults == 20

(***************************************************************************)
(* State of a session.  pc is the prompt the session waits at; loc holds   *)
(* the local variables of the running function (source names).  Four      *)
(* fields record what happened in the call: quit (a quit / cancel input    *)
(* ended it), skipped (a foreign key was skipped or abandoned in the       *)
(* resolver), rejected (the engine rejected a statement), line (the raw    *)
(* line typed at the final confirmation and, in a direct call of the       *)
(* resolver, at its latest prompt).  ret is what the last call returned.   *)
(***************************************************************************)
EmptyMap == [c \in {} |-> NULL]

\* no open transaction
NoTxn == <<>>

Put(m, k, v) == [c \in DOMAIN m \cup {k} |-> IF c = k THEN v ELSE m[c]]

B(b) == <<"bool", b>>

Loc0 ==
    [fn |-> "", table_name |-> NoName, uid |-> NULL, field_name |-> NoName,
     next_uid |-> 0, entry_data |-> EmptyMap, col |-> 0,
     caller |-> "", fk_column |-> "", ref_table |-> "", results |-> <<>>,
     current_record |-> EmptyMap, updates |-> EmptyMap, any_updates |-> FALSE,
     selected_field |-> NoName, related_records |-> <<>>,
     lex_uid |-> 0, def_uid |-> 0, definition_text |-> <<>>, ndefs |-> 0,
     search_term |-> <<>>,
     quit |-> FALSE, skipped |-> FALSE, line |-> NULL, rejected |-> FALSE,
     retried |-> FALSE]

NoRet ==
    [fn |-> "", val |-> NULL, line |-> NULL, quit |-> FALSE, skipped |-> FALSE,
     rejected |-> FALSE, table_name |-> NoName, next_uid |-> 0, ndefs |-> 0,
     fk_column |-> "", retried |-> FALSE]

\* the outcome of a step of session p: its next pc, locals, return record,
\* and the committed database
Cur(p) == [pc |-> pc[p], loc |-> loc[p], ret |-> ret[p], db |-> db, txn |-> txn[p]]

Apply(p, o) ==
    /\ pc' = [pc EXCEPT ![p] = o.pc]
    /\ loc' = [loc EXCEPT ![p] = o.loc]
    /\ ret' = [ret EXCEPT ![p] = o.ret]
    /\ txn' = [txn EXCEPT ![p] = o.txn]
    /\ db' = o.db

\* `return val`
Returned(o, val) ==
    [o EXCEPT !.pc = "idle", !.loc = Loc0,
              !.ret = [fn |-> o.loc.fn, val |-> val, line |-> o.loc.line,
                       quit |-> o.loc.quit, skipped |-> o.loc.skipped,
                       rejected |-> o.loc.rejected, table_name |-> o.loc.table_name,
                       next_uid |-> o.loc.next_uid, ndefs |-> o.loc.ndefs,
                       fk_column |-> o.loc.fk_column, retried |-> o.loc.retried]]

At(o, label) == [o EXCEPT !.pc = label]

Quit(o) == [o EXCEPT !.loc.quit = TRUE]

Skip(o) == [o EXCEPT !.loc.skipped = TRUE]

\* the console line of a direct call of the resolver
Echo(o, raw) ==
    IF o.loc.fn = "_resolve_foreign_key" THEN [o EXCEPT !.loc.line = S(raw)] ELSE o

\* a direct call of the resolver has gone back from the retry prompt to the
\* search prompt
Retried(o) ==
    IF o.loc.fn = "_resolve_foreign_key" THEN [o EXCEPT !.loc.retried = TRUE] ELSE o

\* the first index after `from` of a column of table t satisfying Want
NextCol(t, from, Want(_)) ==
    LET hit == {i \in (from + 1)..Len(table_info(t)) : Want(table_info(t)[i].name)}
    IN  IF hit = {} THEN 0 ELSE CHOOSE i \in hit : \A j \in hit : i <= j

(***************************************************************************)
(* _resolve_foreign_key and add_entry.                                     *)
(***************************************************************************)
RECURSIVE AddAdvance(_, _)
RECURSIVE ResolveReturn(_, _)
RECURSIVE UsfReturn(_, _)

\* entry of _resolve_foreign_key(table_name, fk_column)
ResolveBegin(o, caller) ==
    LET fk_info == get_fk_info(o.loc.table_name, o.loc.fk_column)
        o1 == [o EXCEPT !.loc.caller = caller]
    IN  IF fk_info = NoFk THEN ResolveReturn(o1, NULL)
        ELSE At([o1 EXCEPT !.loc.ref_table = fk_info.ref_table], "fk_search")

\* the loops of add_entry over schema['columns']: phase 1 prompts the simple
\* fields, phase 2 resolves the foreign keys, then the review
AddAdvance(o, phase) ==
    LET t == o.loc.table_name
        simple == NextCol(t, o.loc.col,
                     LAMBDA c : ~should_skip_field(t, c) /\ c \notin fk_column_names(t))
        fkcol == NextCol(t, IF phase = 1 THEN 0 ELSE o.loc.col,
                     LAMBDA c : ~should_skip_field(t, c) /\ c \in fk_column_names(t))
    IN  IF phase = 1 /\ simple # 0 THEN At([o EXCEPT !.loc.col = simple], "add_simple")
        ELSE IF fkcol # 0
             THEN ResolveBegin([o EXCEPT !.loc.col = fkcol,
                                         !.loc.fk_column = table_info(t)[fkcol].name],
                               "add_entry")
             ELSE At([o EXCEPT !.loc.col = 0, !.loc.fk_column = ""], "add_confirm")

\* `return` of _resolve_foreign_key to its caller
ResolveReturn(o, v) ==
    LET o1 == [o EXCEPT !.loc.results = <<>>, !.loc.ref_table = "", !.loc.caller = ""]
    IN  IF o.loc.caller = "add_entry"
        THEN AddAdvance([o1 EXCEPT !.loc.entry_data = Put(@, o.loc.fk_column, v)], 2)
        ELSE IF o.loc.caller = "_update_single_field"
        THEN UsfReturn([o1 EXCEPT !.loc.fk_column = ""],
                       IF v # NULL THEN v ELSE o.loc.current_record[o.loc.selected_field])
        ELSE Returned(o1, v)

\* add_entry once table_name is known: the existence check, the schema,
\* the next UID
AddBegin(o, tn) ==
    IF tn \notin TableSet THEN Returned(o, NULL)
    ELSE AddAdvance([o EXCEPT !.loc.table_name = tn,
                              !.loc.next_uid = get_next_uid(o.db, tn),
                              !.loc.entry_data = Put(EmptyMap, "UID", I(get_next_uid(o.db, tn)))],
                    1)

Call(p, fn) ==
    [Cur(p) EXCEPT !.loc = [Loc0 EXCEPT !.fn = fn], !.ret = NoRet]

CanCall(p) == pc[p] = "idle" /\ calls[p] < MaxCalls

Called(p) == calls' = [calls EXCEPT ![p] = @ + 1]

\* the table menu shared by add_entry, update_entry and delete_entry:
\* the table chosen, "q" for quit, "" for an invalid selection
MenuChoice(raw) ==
    LET choice == Strip(raw)
    IN  IF Lower(choice) = <<"q">> THEN "q"
        ELSE IF ~IsDigit(choice) \/ ~(1 <= ToInt(choice) /\ ToInt(choice) <= Len(all_tables))
             THEN ""
             ELSE all_tables[ToInt(choice)]

AddEntryCall(p) ==
    /\ CanCall(p)
    /\ \E tn \in TableArgs :
         Apply(p, IF tn = NoName THEN At(Call(p, "add_entry"), "add_menu")
                  ELSE AddBegin(Call(p, "add_entry"), tn))
    /\ Called(p)

AddEntryMenu(p) ==
    /\ pc[p] = "add_menu"
    /\ \E raw \in MenuInputs :
         LET m == MenuChoice(raw) IN
         Apply(p, IF m = "q" THEN Returned(Quit(Cur(p)), NULL)
                  ELSE IF m = "" THEN Returned(Cur(p), NULL)
                  ELSE AddBegin(Cur(p), m))
    /\ UNCHANGED calls

AddSimpleField(p) ==
    /\ pc[p] = "add_simple"
    /\ \E raw \in FieldInputs :
         LET value == Strip(raw)
             col_name == table_info(loc[p].table_name)[loc[p].col].name
         IN  Apply(p, AddAdvance([Cur(p) EXCEPT !.loc.entry_data =
                                    Put(@, col_name, IF value = <<>> THEN NULL ELSE S(value))],
                                 1))
    /\ UNCHANGED calls


\* faulty variant: everything but 'n' confirms
AddConfirmedUnlessNo(confirm) == confirm # <<"n">>

\* `confirm == 'y'` of add_entry
AddConfirmed(confirm) == confirm = <<"y">>


\* faulty variant: the new UID is returned although the INSERT was rejected
AddResultAlwaysUid(rejected, next_uid) == I(next_uid)

\* the value add_entry returns after the INSERT
AddResult(rejected, next_uid) == IF rejected THEN NULL ELSE I(next_uid)

AddConfirm(p) ==
    /\ pc[p] = "add_confirm"
    /\ \E raw \in ConfirmInputs :
         LET confirm == StripLower(raw)
             o == [Cur(p) EXCEPT !.loc.line = S(raw)]
             row == MakeRow(loc[p].table_name, loc[p].entry_data)
             rejected == InsertRejected(db, loc[p].table_name, row)
         IN  Apply(p,
               IF confirm = <<"e", "d", "i", "t">> THEN Returned(o, NULL)
               ELSE IF ~AddConfirmed(confirm) THEN Returned(o, NULL)
               ELSE IF rejected
                    THEN Returned([o EXCEPT !.loc.rejected = TRUE],
                                  AddResult(TRUE, loc[p].next_uid))
                    ELSE Returned([o EXCEPT !.db = InsertRow(db, loc[p].table_name, row)],
                                  AddResult(FALSE, loc[p].next_uid)))
    /\ UNCHANGED calls

\* a direct call _resolve_foreign_key(table_name, fk_column)
ResolveCall(p) ==
    /\ CanCall(p)
    /\ \E tn \in TableSet : \E c \in ColSet(tn) :
         Apply(p, ResolveBegin([Call(p, "_resolve_foreign_key") EXCEPT
                                   !.loc.table_name = tn, !.loc.fk_column = c], "top"))
    /\ Called(p)

ResolveSearch(p) ==
    /\ pc[p] = "fk_search"
    /\ \E raw \in SearchInputs :
         LET search_term == Strip(raw)
             results == search_in_table(db, loc[p].ref_table, search_term, DefaultMaxResults)
             o == Echo(Cur(p), raw)
         IN  Apply(p, IF search_term = <<>> THEN ResolveReturn(Skip(o), NULL)
                      ELSE IF results = <<>>
                           THEN At([o EXCEPT !.loc.search_term = search_term], "fk_retry")
                           ELSE At([o EXCEPT !.loc.search_term = search_term,
                                             !.loc.results = results], "fk_select"))
    /\ UNCHANGED calls


\* faulty variant: the answer is compared with 'yes'
RetryAgainOnYes(retry) == retry = <<"y", "e", "s">>

\* faulty variant: everything but 'n' searches again
RetryAgainUnlessNo(retry) == retry # <<"n">>

\* `retry != 'y'` negated: the resolver searches again
RetryAgain(retry) == retry = <<"y">>

ResolveRetry(p) ==
    /\ pc[p] = "fk_retry"
    /\ \E raw \in RetryInputs :
         LET o == [Echo(Cur(p), raw) EXCEPT !.loc.search_term = <<>>]
         IN  Apply(p, IF ~RetryAgain(StripLower(raw)) THEN ResolveReturn(Skip(o), NULL)
                      ELSE At(Retried(o), "fk_search"))
    /\ UNCHANGED calls


\* faulty variant: the first row is taken whatever the index
SelectedRowFirst(results, choice) == results[1]

\* results[idx] for the 1-based line the user typed
SelectedRow(results, choice) == results[(ToInt(choice) - 1) + 1]

ValidIndex(results, choice) ==
    IsDigit(choice) /\ 0 <= ToInt(choice) - 1 /\ ToInt(choice) - 1 < Len(results)

\* faulty variant: an invalid selection ends the resolver with null
ResolveSelectEnding(p) ==
    /\ pc[p] = "fk_select"
    /\ \E raw \in SelectInputs :
         LET choice == StripLower(raw)
             o == [Echo(Cur(p), raw) EXCEPT !.loc.search_term = <<>>]
             again == At([o EXCEPT !.loc.results = <<>>], "fk_search")
         IN  Apply(p, IF choice = <<"s">> THEN again
                      ELSE IF choice = <<>> THEN ResolveReturn(Skip(o), NULL)
                      ELSE IF ValidIndex(loc[p].results, choice)
                           THEN ResolveReturn(o, SelectedRow(loc[p].results, choice)["UID"])
                           ELSE ResolveReturn(Skip(o), NULL))
    /\ UNCHANGED calls

ResolveSelect(p) ==
    /\ pc[p] = "fk_select"
    /\ \E raw \in SelectInputs :
         LET choice == StripLower(raw)
             o == [Echo(Cur(p), raw) EXCEPT !.loc.search_term = <<>>]
             again == At([o EXCEPT !.loc.results = <<>>], "fk_search")
         IN  Apply(p, IF choice = <<"s">> THEN again
                      ELSE IF choice = <<>> THEN ResolveReturn(Skip(o), NULL)
                      ELSE IF ValidIndex(loc[p].results, choice)
                           THEN ResolveReturn(o, SelectedRow(loc[p].results, choice)["UID"])
                           ELSE again)
    /\ UNCHANGED calls

(***************************************************************************)
(* update_entry and _update_single_field.                                  *)
(***************************************************************************)
\* SELECT * FROM table WHERE UID = ?  (fetchone; NoRow when there is none)
NoRow == EmptyMap

fetch_record(d, t, uid) ==
    IF RowsWhere(d[t], "UID", uid) = <<>> THEN NoRow ELSE RowsWhere(d[t], "UID", uid)[1]

updatable_fields(t) ==
    SelectSeq(column_names(t), LAMBDA c : ~should_skip_field(t, c))

\* "If no updates made, exit", else the review and the confirmation prompt
UpdateReview(o) ==
    IF ~o.loc.any_updates THEN Returned(o, B(FALSE)) ELSE At(o, "upd_confirm")

\* the test of the field_name path on the value _update_single_field returned
FieldChanged(updated_value, current_value) ==
    updated_value # NULL \/ updated_value # current_value

\* the test of the interactive path
ValueChanged(updated_value, current_value) == updated_value # current_value

\* `return` of _update_single_field into update_entry
UsfReturn(o, updated_value) ==
    LET f == o.loc.selected_field
        cur == o.loc.current_record[f]
    IN  IF o.loc.field_name # NoName
        THEN UpdateReview(
               IF FieldChanged(updated_value, cur)
               THEN [o EXCEPT !.loc.updates = Put(@, f, updated_value),
                              !.loc.any_updates = TRUE]
               ELSE o)
        ELSE At(IF ValueChanged(updated_value, cur)
                THEN [o EXCEPT !.loc.updates = Put(@, f, updated_value),
                               !.loc.current_record = Put(@, f, updated_value),
                               !.loc.any_updates = TRUE, !.loc.selected_field = NoName]
                ELSE [o EXCEPT !.loc.selected_field = NoName],
                "upd_fields")

\* call of _update_single_field for field f
UsfBegin(o, f) ==
    At([o EXCEPT !.loc.selected_field = f],
       IF f \in fk_column_names(o.loc.table_name) THEN "usf_fk" ELSE "usf_val")

\* update_entry once table_name and uid are known
UpdateLoad(o) ==
    LET t == o.loc.table_name
        record == fetch_record(o.db, t, o.loc.uid)
        o1 == [o EXCEPT !.loc.current_record = record]
    IN  IF record = NoRow THEN Returned(o, B(FALSE))
        ELSE IF o.loc.field_name # NoName
             THEN IF o.loc.field_name \notin ColSet(t) THEN Returned(o, B(FALSE))
                  ELSE IF should_skip_field(t, o.loc.field_name) THEN Returned(o, B(FALSE))
                  ELSE UsfBegin(o1, o.loc.field_name)
             ELSE At(o1, "upd_fields")

(***************************************************************************)
(* delete_entry: the dependency pre-check.                                 *)
(***************************************************************************)

RECURSIVE related_scan_first_fk(_, _, _, _, _, _)
\* faulty variant: only the first foreign key of each table is examined
related_scan_first_fk(d, table_name, uid, ti, fi, related_records) ==
    IF ti > Len(all_tables) THEN related_records
    ELSE LET other_table == all_tables[ti]
             fks == foreign_key_list(other_table)
         IN  IF other_table = table_name \/ fi > Len(fks) \/ fi > 1
             THEN related_scan_first_fk(d, table_name, uid, ti + 1, 1, related_records)
             ELSE LET count == Len(RowsWhere(d[other_table], fks[fi].from, uid))
                  IN  related_scan_first_fk(d, table_name, uid, ti, fi + 1,
                         IF fks[fi].table = table_name /\ count > 0
                         THEN Append(related_records,
                                     [table |-> other_table, column |-> fks[fi].from,
                                      count |-> count])
                         ELSE related_records)

RECURSIVE related_scan(_, _, _, _, _, _)
\* the loops `for other_table in all_tables: ... for fk in fks:` from table
\* index ti, foreign key index fi, appending to related_records
related_scan(d, table_name, uid, ti, fi, related_records) ==
    IF ti > Len(all_tables) THEN related_records
    ELSE LET other_table == all_tables[ti]
             fks == foreign_key_list(other_table)
         IN  IF other_table = table_name \/ fi > Len(fks)
             THEN related_scan(d, table_name, uid, ti + 1, 1, related_records)
             ELSE LET count == Len(RowsWhere(d[other_table], fks[fi].from, uid))
                  IN  related_scan(d, table_name, uid, ti, fi + 1,
                         IF fks[fi].table = table_name /\ count > 0
                         THEN Append(related_records,
                                     [table |-> other_table, column |-> fks[fi].from,
                                      count |-> count])
                         ELSE related_records)

\* delete_entry once table_name and uid are known
DeleteLoad(o) ==
    LET t == o.loc.table_name
        record == fetch_record(o.db, t, o.loc.uid)
    IN  IF record = NoRow THEN Returned(o, B(FALSE))
        ELSE At([o EXCEPT !.loc.current_record = record,
                          !.loc.related_records =
                              related_scan(o.db, t, o.loc.uid, 1, 1, <<>>)],
                "del_confirm")

(***************************************************************************)
(* Selecting the table and the row in update_entry and delete_entry.       *)
(***************************************************************************)
Loaded(o) == IF o.loc.fn = "update_entry" THEN UpdateLoad(o) ELSE DeleteLoad(o)

\* after the table menu or with table_name given: the existence check,
\* then the search for the row unless uid was given
SelectBegin(o, tn) ==
    IF tn \notin TableSet THEN Returned(o, B(FALSE))
    ELSE IF o.loc.uid = NULL THEN At([o EXCEPT !.loc.table_name = tn], "find_search")
    ELSE Loaded([o EXCEPT !.loc.table_name = tn])

UpdateEntryCall(p) ==
    /\ CanCall(p)
    /\ \E tn \in TableArgs, uid \in UidArgs, field_name \in FieldArgs :
         LET o == [Call(p, "update_entry") EXCEPT !.loc.uid = uid,
                                                  !.loc.field_name = field_name]
         IN  Apply(p, IF tn = NoName THEN At(o, "sel_menu") ELSE SelectBegin(o, tn))
    /\ Called(p)

DeleteEntryCall(p) ==
    /\ CanCall(p)
    /\ \E tn \in TableArgs, uid \in UidArgs :
         LET o == [Call(p, "delete_entry") EXCEPT !.loc.uid = uid]
         IN  Apply(p, IF tn = NoName THEN At(o, "sel_menu") ELSE SelectBegin(o, tn))
    /\ Called(p)

SelectMenu(p) ==
    /\ pc[p] = "sel_menu"
    /\ \E raw \in MenuInputs :
         LET m == MenuChoice(raw) IN
         Apply(p, IF m = "q" THEN Returned(Quit(Cur(p)), B(FALSE))
                  ELSE IF m = "" THEN Returned(Cur(p), B(FALSE))
                  ELSE SelectBegin(Cur(p), m))
    /\ UNCHANGED calls

FindSearch(p) ==
    /\ pc[p] = "find_search"
    /\ \E raw \in SearchInputs :
         LET search_term == Strip(raw)
             results == search_in_table(db, loc[p].table_name, search_term, 20)
         IN  Apply(p, IF search_term = <<>> THEN Returned(Quit(Cur(p)), B(FALSE))
                      ELSE IF results = <<>> THEN At(Cur(p), "find_retry")
                      ELSE At([Cur(p) EXCEPT !.loc.results = results], "find_select"))
    /\ UNCHANGED calls

FindRetry(p) ==
    /\ pc[p] = "find_retry"
    /\ \E raw \in RetryInputs :
         Apply(p, IF StripLower(raw) # <<"y">> THEN Returned(Quit(Cur(p)), B(FALSE))
                  ELSE At(Cur(p), "find_search"))
    /\ UNCHANGED calls

FindSelect(p) ==
    /\ pc[p] = "find_select"
    /\ \E raw \in SelectInputs :
         LET choice == StripLower(raw)
             again == At([Cur(p) EXCEPT !.loc.results = <<>>], "find_search")
         IN  Apply(p, IF choice = <<"s">> THEN again
                      ELSE IF choice = <<"c">> THEN Returned(Quit(Cur(p)), B(FALSE))
                      ELSE IF ValidIndex(loc[p].results, choice)
                           THEN Loaded([Cur(p) EXCEPT
                                   !.loc.uid = SelectedRow(loc[p].results, choice)["UID"],
                                   !.loc.results = <<>>])
                           ELSE again)
    /\ UNCHANGED calls

UpdateFieldChoice(p) ==
    /\ pc[p] = "upd_fields"
    /\ \E raw \in FieldChoiceInputs :
         LET choice == StripLower(raw)
             fields == updatable_fields(loc[p].table_name)
         IN  Apply(p, IF choice = <<"d", "o", "n", "e">> THEN UpdateReview(Cur(p))
                      ELSE IF choice = <<"c", "a", "n", "c", "e", "l">>
                           THEN Returned(Quit(Cur(p)), B(FALSE))
                      ELSE IF IsDigit(choice) /\ 1 <= ToInt(choice)
                              /\ ToInt(choice) <= Len(fields)
                           THEN UsfBegin(Cur(p), fields[ToInt(choice)])
                           ELSE Cur(p))
    /\ UNCHANGED calls

\* _update_single_field, foreign-key branch
UsfForeignKey(p) ==
    /\ pc[p] = "usf_fk"
    /\ \E raw \in FkChangeInputs :
         LET change == StripLower(raw)
             current_value == loc[p].current_record[loc[p].selected_field]
         IN  Apply(p, IF change = <<"n">> THEN UsfReturn(Cur(p), current_value)
                      ELSE IF change = <<"n", "u", "l", "l">> THEN UsfReturn(Cur(p), NULL)
                      ELSE IF change = <<"y">>
                           THEN ResolveBegin([Cur(p) EXCEPT
                                                !.loc.fk_column = loc[p].selected_field],
                                             "_update_single_field")
                           ELSE UsfReturn(Cur(p), current_value))
    /\ UNCHANGED calls

\* _update_single_field, regular branch
UsfValue(p) ==
    /\ pc[p] = "usf_val"
    /\ \E raw \in NewValueInputs :
         LET new_value == Strip(raw)
             current_value == loc[p].current_record[loc[p].selected_field]
         IN  Apply(p, IF new_value = <<>> THEN UsfReturn(Cur(p), current_value)
                      ELSE IF Lower(new_value) = <<"n", "u", "l", "l">>
                           THEN UsfReturn(Cur(p), NULL)
                           ELSE UsfReturn(Cur(p), S(new_value)))
    /\ UNCHANGED calls

\* `confirm != 'y'` of update_entry
UpdateConfirmed(confirm) == confirm = <<"y">>

\* the value update_entry returns after the UPDATE
UpdateResult(rejected) == B(~rejected)

UpdateConfirm(p) ==
    /\ pc[p] = "upd_confirm"
    /\ \E raw \in ConfirmInputs :
         LET confirm == StripLower(raw)
             o == [Cur(p) EXCEPT !.loc.line = S(raw)]
             t == loc[p].table_name
             rejected == UpdateRejected(db, t, loc[p].uid, loc[p].updates)
         IN  Apply(p,
               IF ~UpdateConfirmed(confirm) THEN Returned(o, B(FALSE))
               ELSE IF rejected
                    THEN Returned([o EXCEPT !.loc.rejected = TRUE], UpdateResult(TRUE))
                    ELSE Returned([o EXCEPT !.db = UpdateRows(db, t, loc[p].uid,
                                                              loc[p].updates)],
                                  UpdateResult(FALSE)))
    /\ UNCHANGED calls


\* faulty variant: the confirmation word compared without regard to case
DeleteConfirmedAnyCase(confirm) == Lower(confirm) = Lower(DELETE)

\* `confirm != "DELETE"` of delete_entry, on the stripped line
DeleteConfirmed(confirm) == confirm = DELETE


\* faulty variant: True is returned although the DELETE was rejected
DeleteResultAlwaysTrue(rejected) == B(TRUE)

\* the value delete_entry returns after the DELETE
DeleteResult(rejected) == B(~rejected)

DeleteConfirm(p) ==
    /\ pc[p] = "del_confirm"
    /\ \E raw \in DeleteConfirmInputs :
         LET confirm == Strip(raw)
             o == [Cur(p) EXCEPT !.loc.line = S(raw)]
             t == loc[p].table_name
             rejected == DeleteRejected(db, t, loc[p].uid)
         IN  Apply(p,
               IF ~DeleteConfirmed(confirm) THEN Returned(o, B(FALSE))
               ELSE IF rejected
                    THEN Returned([o EXCEPT !.loc.rejected = TRUE], DeleteResult(TRUE))
                    ELSE Returned([o EXCEPT !.db = DeleteRow(db, t, loc[p].uid)],
                                  DeleteResult(FALSE)))
    /\ UNCHANGED calls


(***************************************************************************)
(* new_lex: one connection, one transaction.  txn is the database as the   *)
(* connection of new_lex sees it (its uncommitted rows included); every    *)
(* other connection, _get_next_uid's among them, reads db.                 *)
(***************************************************************************)

\* faulty variant: the handler commits what the transaction holds
LexRollbackCommits(o) == Returned([o EXCEPT !.db = o.txn, !.txn = NoTxn], NULL)

\* conn.rollback() in the handler of new_lex, then `return None`
LexRollback(o) == Returned([o EXCEPT !.txn = NoTxn], NULL)


\* conn.commit(), then `return lex_uid`
LexCommit(o) == Returned([o EXCEPT !.db = o.txn, !.txn = NoTxn], I(o.loc.lex_uid))

\* top of the definition loop: the next UID for definitions
LexLoop(o) ==
    At([o EXCEPT !.loc.def_uid = get_next_uid(o.db, "definitions"),
                 !.loc.definition_text = <<>>],
       "lex_def")

\* new_lex once the term is known: next UID, INSERT INTO lexicon
NewLexBegin(o, new_term) ==
    LET lex_uid == get_next_uid(o.db, "lexicon")
        row == MakeRow("lexicon", Put(Put(EmptyMap, "UID", I(lex_uid)), "Term", new_term))
        o1 == [o EXCEPT !.loc.lex_uid = lex_uid]
    IN  IF InsertRejected(o.db, "lexicon", row)
        THEN LexRollback([o1 EXCEPT !.loc.rejected = TRUE])
        ELSE LexLoop([o1 EXCEPT !.txn = InsertRow(o.db, "lexicon", row)])

\* after _get_source_id_for_definition returned source_id:
\* INSERT INTO definitions, then the "another definition?" prompt
LexInsertDefinition(o, source_id) ==
    LET row == [UID |-> I(o.loc.def_uid), Lexicon_ID |-> I(o.loc.lex_uid),
                Definition |-> S(o.loc.definition_text), Source_ID |-> source_id]
        o1 == [o EXCEPT !.loc.results = <<>>]
    IN  IF InsertRejected(o.txn, "definitions", row)
        THEN LexRollback([o1 EXCEPT !.loc.rejected = TRUE])
        ELSE At([o1 EXCEPT !.txn = InsertRow(o.txn, "definitions", row),
                           !.loc.ndefs = @ + 1],
                "lex_another")

\* the search of _get_source_id_for_definition over bibliography
search_bibliography(d, source_input) ==
    Limit(SelectSeq(d["bibliography"],
              LAMBDA row : regex_search_case_insensitive(
                               normalize_search_term(source_input), row["Title"])),
          20)

NewLexCall(p) ==
    /\ CanCall(p)
    /\ \E new_term \in TermArgs :
         Apply(p, IF new_term = NULL THEN At(Call(p, "new_lex"), "lex_term")
                  ELSE NewLexBegin(Call(p, "new_lex"), new_term))
    /\ Called(p)

NewLexTerm(p) ==
    /\ pc[p] = "lex_term"
    /\ \E raw \in FieldInputs :
         Apply(p, IF Strip(raw) = <<>> THEN Returned(Cur(p), NULL)
                  ELSE NewLexBegin(Cur(p), S(Strip(raw))))
    /\ UNCHANGED calls

NewLexDefinition(p) ==
    /\ pc[p] = "lex_def"
    /\ \E raw \in FieldInputs :
         LET definition_text == Strip(raw)
         IN  Apply(p, IF definition_text = <<>> THEN LexCommit(Cur(p))
                      ELSE At([Cur(p) EXCEPT !.loc.definition_text = definition_text],
                              "src_input"))
    /\ UNCHANGED calls

SourceInput(p) ==
    /\ pc[p] = "src_input"
    /\ \E raw \in SourceInputs :
         LET source_input == Strip(raw)
             results == search_bibliography(db, source_input)
         IN  Apply(p,
               IF source_input = <<>> THEN LexInsertDefinition(Cur(p), NULL)
               ELSE IF IsDigit(source_input)
                    THEN IF fetch_record(txn[p], "bibliography", I(ToInt(source_input))) # NoRow
                         THEN LexInsertDefinition(Cur(p), I(ToInt(source_input)))
                         ELSE Cur(p)
               ELSE IF results = <<>> THEN At(Cur(p), "src_retry")
               ELSE At([Cur(p) EXCEPT !.loc.results = results], "src_select"))
    /\ UNCHANGED calls

SourceRetry(p) ==
    /\ pc[p] = "src_retry"
    /\ \E raw \in RetryInputs :
         Apply(p, IF StripLower(raw) # <<"y">> THEN LexInsertDefinition(Cur(p), NULL)
                  ELSE At(Cur(p), "src_input"))
    /\ UNCHANGED calls

SourceSelect(p) ==
    /\ pc[p] = "src_select"
    /\ \E raw \in SelectInputs :
         LET choice == StripLower(raw)
             again == At([Cur(p) EXCEPT !.loc.results = <<>>], "src_input")
         IN  Apply(p, IF choice = <<"s">> THEN again
                      ELSE IF choice = <<>> THEN LexInsertDefinition(Cur(p), NULL)
                      ELSE IF ValidIndex(loc[p].results, choice)
                           THEN LexInsertDefinition(Cur(p),
                                    SelectedRow(loc[p].results, choice)["UID"])
                           ELSE again)
    /\ UNCHANGED calls

NewLexAnother(p) ==
    /\ pc[p] = "lex_another"
    /\ \E raw \in RetryInputs :
         Apply(p, IF StripLower(raw) # <<"y">> THEN LexCommit(Cur(p))
                  ELSE LexLoop(Cur(p)))
    /\ UNCHANGED calls


(***************************************************************************)
(* Initial databases and the specification of one session.                 *)
(***************************************************************************)
EmptyDB == [t \in TableSet |-> <<>>]

SeedDB ==
    [t \in TableSet |->
        CASE t = "bibliography" ->
                << [UID |-> I(1), Title |-> S(<<"a">>), Citation |-> NULL] >>
          [] t = "lexicon" ->
                << [UID |-> I(1), Term |-> S(<<"a">>)],
                   [UID |-> I(2), Term |-> S(<<"a", "b">>)] >>
          [] t = "definitions" ->
                << [UID |-> I(1), Lexicon_ID |-> I(1), Definition |-> S(<<"a">>),
                    Source_ID |-> I(1)] >>]

Init ==
    /\ db \in {EmptyDB, SeedDB}
    /\ txn = [p \in Procs |-> NoTxn]
    /\ pc = [p \in Procs |-> "idle"]
    /\ loc = [p \in Procs |-> Loc0]
    /\ ret = [p \in Procs |-> NoRet]
    /\ calls = [p \in Procs |-> 0]

Next ==
    \/ AddEntryCall(1)
    \/ AddEntryMenu(1)
    \/ AddSimpleField(1)
    \/ AddConfirm(1)
    \/ ResolveCall(1)
    \/ ResolveSearch(1)
    \/ ResolveRetry(1)
    \/ ResolveSelect(1)
    \/ UpdateEntryCall(1)
    \/ DeleteEntryCall(1)
    \/ SelectMenu(1)
    \/ FindSearch(1)
    \/ FindRetry(1)
    \/ FindSelect(1)
    \/ UpdateFieldChoice(1)
    \/ UsfForeignKey(1)
    \/ UsfValue(1)
    \/ UpdateConfirm(1)
    \/ DeleteConfirm(1)

Spec == Init /\ [][Next]_vars

\* one session running new_lex
NextLex ==
    \/ NewLexCall(1)
    \/ NewLexTerm(1)
    \/ NewLexDefinition(1)
    \/ SourceInput(1)
    \/ SourceRetry(1)
    \/ SourceSelect(1)
    \/ NewLexAnother(1)

SpecLex == Init /\ [][NextLex]_vars

\* two sessions adding entries to tables without foreign keys
ConcTables == {"bibliography", "lexicon"}

AddEntryCallConc(p) ==
    /\ pc[p] = "idle" /\ calls[p] < MaxConcCalls
    /\ \E tn \in ConcTables : Apply(p, AddBegin(Call(p, "add_entry"), tn))
    /\ Called(p)

NextConc ==
    \E p \in Procs : AddEntryCallConc(p) \/ AddSimpleField(p) \/ AddConfirm(p)

SpecConc == Init /\ [][NextConc]_vars

(***************************************************************************)
(* gen_search (database_query_functions.py).  The database it runs against *)
(* holds the three tables above with the columns its configuration names,  *)
(* a table "journal" that has no entry in TABLE_SEARCH_CONFIG, and, in     *)
(* some databases, the junction table "related_terms".  The configured     *)
(* tables that are absent from this database are left out of the           *)
(* configuration.                                                          *)
(***************************************************************************)
MaxSearchCalls == 1

\* ORDER BY name
TABLE_ORDER == <<"bibliography", "definitions", "journal", "lexicon", "related_terms">>

\* SELECT name FROM sqlite_master WHERE type='table' ORDER BY name
sqlite_master(d) == SelectSeq(TABLE_ORDER, LAMBDA t : t \in DOMAIN d)

\* PRAGMA table_info(table)
pragma_table_info(t) ==
    CASE t = "bibliography" ->
            << Col("UID", "INTEGER", 0, 1), Col("Author", "TEXT", 0, 0),
               Col("Title", "TEXT", 1, 0) >>
      [] t = "definitions" ->
            << Col("UID", "INTEGER", 0, 1), Col("Lexicon_ID", "INTEGER", 1, 0),
               Col("Definition", "TEXT", 0, 0), Col("Type", "TEXT", 0, 0),
               Col("Source_ID", "INTEGER", 0, 0) >>
      [] t = "journal" ->
            << Col("UID", "INTEGER", 0, 1), Col("Title", "TEXT", 0, 0),
               Col("Notes", "TEXT", 0, 0) >>
      [] t = "lexicon" ->
            << Col("UID", "INTEGER", 0, 1), Col("Term", "TEXT", 1, 0) >>
      [] t = "related_terms" ->
            << Col("UID", "INTEGER", 0, 1), Col("Parent_ID", "INTEGER", 0, 0),
               Col("Child_ID", "INTEGER", 0, 0) >>
      [] OTHER -> <<>>

NamesOf(cols) == [i \in 1..Len(cols) |-> cols[i].name]

SeqSet(q) == {q[i] : i \in 1..Len(q)}

\* table_columns = [col[1] for col in cursor.fetchall()]
table_columns(t) == SeqSet(NamesOf(pragma_table_info(t)))

FkConfig(field, table, display_field, label) ==
    [field |-> field, table |-> table, display_field |-> display_field, label |-> label]

RelConfig(junction_table, junction_fk, target_fk, target_table, target_display, label) ==
    [junction_table |-> junction_table, junction_fk |-> junction_fk,
     target_fk |-> target_fk, target_table |-> target_table,
     target_display |-> target_display, label |-> label]

CONFIGURED == {"bibliography", "lexicon", "definitions"}

\* TABLE_SEARCH_CONFIG[t]; definitions_table is "" where the key is absent
TABLE_SEARCH_CONFIG(t) ==
    CASE t = "bibliography" ->
            [search_fields |-> <<"Author", "Title">>,
             display_fields |-> <<"UID", "Author", "Title", "Date_Pub_Greg", "Date_Pub_Hij",
                                  "Language", "Catalog_No">>,
             foreign_keys |-> << FkConfig("Repository_ID", "repositories", "Acronym",
                                          "Repository") >>,
             related_tables |-> << RelConfig("related_sources", "Referencing_Source_ID",
                                             "Referenced_Source_ID", "bibliography",
                                             "Title", "Related Sources") >>,
             definitions_table |-> "", definitions_fk |-> ""]
      [] t = "lexicon" ->
            [search_fields |-> <<"Term", "Translation", "Emic_Term", "Colonial_Term",
                                 "Transliteration">>,
             display_fields |-> <<"UID", "Term", "Translation", "Emic_Term", "Colonial_Term",
                                  "Transliteration", "Etymology", "Scope", "Tags">>,
             foreign_keys |-> <<>>,
             related_tables |-> << RelConfig("related_terms", "Parent_ID", "Child_ID",
                                             "lexicon", "Term", "Related Terms") >>,
             definitions_table |-> "definitions", definitions_fk |-> "Lexicon_ID"]
      [] t = "definitions" ->
            [search_fields |-> <<"Definition", "Type">>,
             display_fields |-> <<"UID", "Definition", "Type">>,
             foreign_keys |-> << FkConfig("Lexicon_ID", "lexicon", "Term", "Term"),
                                 FkConfig("Social_Role_ID", "social_roles", "Role_Latin",
                                          "Social Role"),
                                 FkConfig("Source_ID", "bibliography", "Author", "Source") >>,
             related_tables |-> <<>>,
             definitions_table |-> "", definitions_fk |-> ""]

\* '_ID' in col_name, for the column names of this database
HasIdMarker(col_name) ==
    col_name \in {"Lexicon_ID", "Source_ID", "Parent_ID", "Child_ID"}

\* any(x in col_name.lower() for x in ['name', 'title', 'term', 'date',
\* 'nickname', 'type', 'year']), for the column names of this database
HasDisplayKeyword(col_name) == col_name \in {"Title", "Term", "Type"}

\* any(keyword in f for keyword in ['Notes', 'Description', 'Comments']),
\* for the field names of this database and of the configuration
HasNotesKeyword(f) == f \in {"Notes"}

Take(q, n) == IF Len(q) > n THEN SubSeq(q, 1, n) ELSE q

\* a local variable: F applied to a value computed once
With(v, F(_)) == F(v)

\* faulty variant: identifier columns are not excluded from the search fields
auto_detect_columns_with_ids(columns) ==
    LET IsText(col) == /\ col.type \in {"TEXT", "VARCHAR", "CHAR"}
                       /\ col.name # "UID"
    IN  With(NamesOf(SelectSeq(columns, IsText)), LAMBDA found :
        With(<<"UID">> \o NamesOf(SelectSeq(columns,
                 LAMBDA col : col.name # "UID" /\ HasDisplayKeyword(col.name))), LAMBDA keyed :
           [search_fields |-> IF found # <<>> THEN found
                              ELSE Take(NamesOf(SelectSeq(columns, IsText)), 3),
            display_fields |->
                IF Len(keyed) # 1 THEN keyed
                ELSE keyed \o NamesOf(SelectSeq(Take(columns, 5),
                                  LAMBDA col : col.name # "UID" /\ ~HasIdMarker(col.name))),
            foreign_keys |-> <<>>, related_tables |-> <<>>,
            definitions_table |-> "", definitions_fk |-> ""]))

\* _auto_detect_search_config once PRAGMA table_info has given the columns
auto_detect_columns(columns) ==
    LET IsText(col) == /\ col.type \in {"TEXT", "VARCHAR", "CHAR"}
                       /\ ~HasIdMarker(col.name) /\ col.name # "UID"
    IN  With(NamesOf(SelectSeq(columns, IsText)), LAMBDA found :
        With(<<"UID">> \o NamesOf(SelectSeq(columns,
                 LAMBDA col : col.name # "UID" /\ HasDisplayKeyword(col.name))), LAMBDA keyed :
           [search_fields |-> IF found # <<>> THEN found
                              ELSE Take(NamesOf(SelectSeq(columns, IsText)), 3),
            display_fields |->
                IF Len(keyed) # 1 THEN keyed
                ELSE keyed \o NamesOf(SelectSeq(Take(columns, 5),
                                  LAMBDA col : col.name # "UID" /\ ~HasIdMarker(col.name))),
            foreign_keys |-> <<>>, related_tables |-> <<>>,
            definitions_table |-> "", definitions_fk |-> ""]))

auto_detect_search_config(table_name) == auto_detect_columns(pragma_table_info(table_name))

\* TABLE_SEARCH_CONFIG.get(table), else the auto-detected configuration
search_config(table) ==
    IF table \in CONFIGURED THEN TABLE_SEARCH_CONFIG(table)
    ELSE auto_detect_search_config(table)

get_notes_fields(search_fields) == SelectSeq(search_fields, HasNotesKeyword)

\* faulty variant: a value that is not a string counts as a match
regex_search_unguarded(pattern, string) ==
    IF ~IsStr(string) THEN TRUE
    ELSE \E off \in 0..(Len(string[2]) - Len(pattern)) :
            \A j \in 1..Len(pattern) : pattern[j] = string[2][off + j]

\* the REGEXP callback: re.search(pattern, string) is not None, for patterns
\* of literal characters; False for a value that is not a string
regex_search(pattern, string) ==
    IF ~IsStr(string) THEN FALSE
    ELSE \E off \in 0..(Len(string[2]) - Len(pattern)) :
            \A j \in 1..Len(pattern) : pattern[j] = string[2][off + j]

\* the search fields of a pass: without the notes fields unless include_notes
fields_of_pass(search_fields, notes_fields, with_notes) ==
    IF with_notes THEN search_fields
    ELSE SelectSeq(search_fields, LAMBDA f : f \notin SeqSet(notes_fields))

\* faulty variant: the WHERE clause is dropped
rows_matching_all(d, table, valid_search_fields, search_term) == d[table]

\* the rows selected by WHERE `f1` REGEXP ? OR `f2` REGEXP ? ...
rows_matching(d, table, valid_search_fields, search_term) ==
    SelectSeq(d[table], LAMBDA row :
        \E i \in 1..Len(valid_search_fields) :
            regex_search(search_term, row[valid_search_fields[i]]))

\* tables_with_results[table] = entry: a dict in insertion order
DictPut(dict, entry) ==
    IF \E i \in 1..Len(dict) : dict[i].table = entry.table
    THEN [i \in 1..Len(dict) |-> IF dict[i].table = entry.table THEN entry ELSE dict[i]]
    ELSE Append(dict, entry)

DictKeys(dict) == {dict[i].table : i \in 1..Len(dict)}

DictGet(dict, table) == dict[CHOOSE i \in 1..Len(dict) : dict[i].table = table]

\* a top-level query on a table raises: the table is in the set of tables
\* whose count query, or whose result query, the engine fails
NoFailure == <<"", "">>

\* include_notes is True
WithNotes(include_notes) == include_notes = B(TRUE)

FirstPass0 == [error |-> FALSE, total_results |-> 0, tables_with_results |-> <<>>]

RECURSIVE first_pass(_, _, _, _, _, _, _)
\* "First pass": the count of the matches of every requested table, from
\* the i-th on
first_pass(d, table_name, i, include_notes, search_term, failing, acc) ==
    IF i > Len(table_name) THEN acc
    ELSE
    With(table_name[i], LAMBDA table :
    With(search_config(table), LAMBDA config :
    With(get_notes_fields(config.search_fields), LAMBDA notes_fields :
    With(IF include_notes = B(FALSE) \/ include_notes = NULL
         THEN fields_of_pass(config.search_fields, notes_fields, FALSE)
         ELSE config.search_fields, LAMBDA search_fields :
    With(SelectSeq(search_fields, LAMBDA f : f \in table_columns(table)),
         LAMBDA valid_search_fields :
       IF \/ table \notin SeqSet(sqlite_master(d))
          \/ search_fields = <<>> \/ valid_search_fields = <<>>
       THEN first_pass(d, table_name, i + 1, include_notes, search_term, failing, acc)
       ELSE IF failing = <<"count", table>> THEN [acc EXCEPT !.error = TRUE]
       ELSE With(Len(rows_matching(d, table, valid_search_fields, search_term)),
                 LAMBDA table_total :
               first_pass(d, table_name, i + 1, include_notes, search_term, failing,
                   IF table_total > 0
                   THEN [acc EXCEPT !.tables_with_results =
                                        DictPut(@, [table |-> table, count |-> table_total,
                                                    notes_fields |-> notes_fields]),
                                    !.total_results = @ + table_total]
                   ELSE acc)))))))

\* faulty variant: the offer is made whatever include_notes is
offers_notes_forced(total_results, include_notes, tables_with_results) ==
    /\ total_results < 5
    /\ \E i \in 1..Len(tables_with_results) : tables_with_results[i].notes_fields # <<>>

\* the test of the notes offer
offers_notes(total_results, include_notes, tables_with_results) ==
    /\ total_results < 5
    /\ include_notes = NULL
    /\ \E i \in 1..Len(tables_with_results) : tables_with_results[i].notes_fields # <<>>

\* "Resolve foreign keys" of one result row: the annotations shown, or an
\* error when a lookup raises
resolve_foreign_keys(d, config, valid_display_fields, row) ==
    LET fks == config.foreign_keys
        value(i) == IF fks[i].field \in SeqSet(valid_display_fields)
                    THEN row[fks[i].field] ELSE NULL
        looked == {i \in 1..Len(fks) : Truthy(value(i))}
        raises(i) == \/ fks[i].table \notin DOMAIN d
                     \/ fks[i].display_field \notin table_columns(fks[i].table)
        found(i) == RowsWhere(d[fks[i].table], "UID", value(i))
    IN  IF \E i \in looked : raises(i) THEN [error |-> TRUE, shown |-> <<>>]
        ELSE [error |-> FALSE,
              shown |-> LET hit == SelectSeq([i \in 1..Len(fks) |-> i],
                                      LAMBDA i : i \in looked /\ found(i) # <<>>)
                        IN  [k \in 1..Len(hit) |->
                               [label |-> fks[hit[k]].label,
                                value |-> found(hit[k])[1][fks[hit[k]].display_field]]]]

\* one relationship of _display_related_records: "error" when the query
\* raises, otherwise the names found
related_names(d, uid, rel_config) ==
    IF \/ rel_config.junction_table \notin DOMAIN d
       \/ rel_config.target_table \notin DOMAIN d
       \/ ~({rel_config.junction_fk, rel_config.target_fk}
               \subseteq table_columns(rel_config.junction_table))
       \/ rel_config.target_display \notin table_columns(rel_config.target_table)
    THEN [error |-> TRUE, names |-> <<>>]
    ELSE LET j == RowsWhere(d[rel_config.junction_table], rel_config.junction_fk, uid)
             joined == SelectSeq(j, LAMBDA r :
                          RowsWhere(d[rel_config.target_table], "UID",
                                    r[rel_config.target_fk]) # <<>>)
             related == Take([k \in 1..Len(joined) |->
                                RowsWhere(d[rel_config.target_table], "UID",
                                          joined[k][rel_config.target_fk])[1]
                                    [rel_config.target_display]], 10)
         IN  [error |-> FALSE, names |-> SelectSeq(related, Truthy)]

\* faulty variant: the query of a relationship is made outside the try
display_related_records_unguarded(d, uid, related_tables_config) ==
    LET out == [i \in 1..Len(related_tables_config) |->
                   related_names(d, uid, related_tables_config[i])]
    IN  [error |-> \E i \in 1..Len(out) : out[i].error, suppressed |-> 0, shown |-> <<>>]

\* _display_related_records: the relationships shown and the number of
\* lookups whose error was swallowed
display_related_records(d, uid, related_tables_config) ==
    With([i \in 1..Len(related_tables_config) |->
             related_names(d, uid, related_tables_config[i])], LAMBDA out :
    With(SelectSeq([i \in 1..Len(out) |-> i],
                   LAMBDA i : ~out[i].error /\ out[i].names # <<>>), LAMBDA ok :
       [error |-> FALSE,
        suppressed |-> Cardinality({i \in 1..Len(out) : out[i].error}),
        shown |-> [k \in 1..Len(ok) |->
                     [label |-> related_tables_config[ok[k]].label,
                      names |-> Take(out[ok[k]].names, 5),
                      more |-> IF Len(out[ok[k]].names) > 5
                               THEN Len(out[ok[k]].names) - 5 ELSE 0]]]))

\* _display_definitions
display_definitions(d, uid, definitions_table, fk_column) ==
    IF \/ definitions_table \notin DOMAIN d
       \/ ~({"Definition", "Type", fk_column} \subseteq table_columns(definitions_table))
    THEN [suppressed |-> 1, shown |-> <<>>]
    ELSE LET definitions == Take(RowsWhere(d[definitions_table], fk_column, uid), 5)
             shown == SelectSeq(definitions, LAMBDA r : Truthy(r["Definition"]))
         IN  [suppressed |-> 0,
              shown |-> [k \in 1..Len(shown) |->
                           [definition |-> shown[k]["Definition"],
                            type |-> shown[k]["Type"]]]]

\* the display of one result row: identifier, main field, the other fields
\* that hold a value, and the annotations
render_row(d, config, valid_display_fields, row) ==
    With(IF "UID" \in SeqSet(valid_display_fields) THEN row["UID"] ELSE NULL, LAMBDA uid :
    With(IF Len(valid_display_fields) > 1 THEN valid_display_fields[2]
         ELSE valid_display_fields[1], LAMBDA main_field :
    With(SelectSeq(SubSeq(valid_display_fields, 3, Len(valid_display_fields)),
                   LAMBDA f : Truthy(row[f])), LAMBDA others :
    With(resolve_foreign_keys(d, config, valid_display_fields, row), LAMBDA fk :
    With(IF config.related_tables # <<>>
         THEN display_related_records(d, uid, config.related_tables)
         ELSE [error |-> FALSE, suppressed |-> 0, shown |-> <<>>], LAMBDA rel :
    With(IF config.definitions_table # ""
         THEN display_definitions(d, uid, config.definitions_table, config.definitions_fk)
         ELSE [suppressed |-> 0, shown |-> <<>>], LAMBDA defs :
       [error |-> fk.error \/ rel.error,
        uid |-> uid, main |-> row[main_field],
        fields |-> [k \in 1..Len(others) |-> [field |-> others[k], value |-> row[others[k]]]],
        fks |-> fk.shown, related |-> rel.shown, definitions |-> defs.shown,
        suppressed |-> rel.suppressed + defs.suppressed]))))))

\* LIMIT ?: a negative limit is no limit
limit_rows(rows, max_results) ==
    IF max_results[2] < 0 THEN rows ELSE Take(rows, max_results[2])

SecondPass0 == [error |-> FALSE, listings |-> <<>>, displayed_results |-> 0]

RECURSIVE second_pass(_, _, _, _, _, _, _, _, _)
\* "Now perform full search and display": the listing of every table with
\* results, from the i-th requested table on
second_pass(d, table_name, i, tables_with_results, include_notes, search_term, max_results, failing, acc) ==
    IF i > Len(table_name) THEN acc
    ELSE IF table_name[i] \notin DictKeys(tables_with_results)
    THEN second_pass(d, table_name, i + 1, tables_with_results, include_notes,
                     search_term, max_results, failing, acc)
    ELSE
    With(table_name[i], LAMBDA table :
    With(search_config(table), LAMBDA config :
    With(DictGet(tables_with_results, table), LAMBDA entry :
    With(SelectSeq(fields_of_pass(config.search_fields, entry.notes_fields,
                                  WithNotes(include_notes)),
                   LAMBDA f : f \in table_columns(table)), LAMBDA valid_search_fields :
    With(SelectSeq(config.display_fields, LAMBDA f : f \in table_columns(table)),
         LAMBDA existing :
    With(IF existing = <<>> THEN <<"UID">> ELSE existing, LAMBDA valid_display_fields :
       IF valid_search_fields = <<>>
       THEN second_pass(d, table_name, i + 1, tables_with_results, include_notes,
                        search_term, max_results, failing, acc)
       ELSE IF failing = <<"result", table>> \/ max_results = NULL
       THEN [acc EXCEPT !.error = TRUE]
       ELSE
       With(limit_rows(rows_matching(d, table, valid_search_fields, search_term),
                       max_results), LAMBDA results :
       With([k \in 1..Len(results) |->
                render_row(d, config, valid_display_fields, results[k])], LAMBDA rows :
       With({k \in 1..Len(rows) : rows[k].error}, LAMBDA bad :
       With([table |-> table, showing |-> Len(results), count |-> entry.count,
             rows |-> IF bad = {} THEN rows
                      ELSE SubSeq(rows, 1, (CHOOSE k \in bad : \A m \in bad : k <= m) - 1)],
            LAMBDA listing :
          IF results = <<>>
          THEN second_pass(d, table_name, i + 1, tables_with_results, include_notes,
                           search_term, max_results, failing, acc)
          ELSE IF bad # {}
          THEN [acc EXCEPT !.error = TRUE, !.listings = Append(@, listing)]
          ELSE second_pass(d, table_name, i + 1, tables_with_results, include_notes,
                   search_term, max_results, failing,
                   [acc EXCEPT !.listings = Append(@, listing),
                               !.displayed_results = @ + Len(results)])))))))))))

\* the arguments and console lines of gen_search
SearchTerms == {<<"a">>, <<"b">>, <<"z">>}

\* table_name: None, a table name, or a tuple of table names
TableNameArgs ==
    {NULL, <<"str", "lexicon">>, <<"str", "journal">>, <<"str", "definitions">>,
     <<"tuple", <<"lexicon", "journal">>>>,
     <<"tuple", <<"lexicon", "lexicon">>>>,
     <<"tuple", <<"journal", "nosuch", "bibliography">>>>}

MaxResultsArgs == {NULL, I(1), I(20)}

IncludeNotesArgs == {NULL, B(TRUE), B(FALSE)}

\* the top-level query the engine fails, if any
FailureArgs == {NoFailure, <<"count", "lexicon">>, <<"result", "journal">>}

SearchMenuInputs == {<<"q">>, <<"Q", " ">>, <<"3">>, <<" ", "4">>, <<"5">>, <<"6">>,
                     <<"0">>, <<"x">>, <<>>}

OfferInputs == {<<"y">>, <<"Y">>, <<" ", "y", " ">>, <<"n">>, <<>>}

\* the report of a gen_search that has printed nothing
Report0 ==
    [error |-> FALSE, summary |-> FALSE, include_notes |-> NULL,
     total_results |-> 0, tables_with_results |-> <<>>,
     listings |-> <<>>, displayed_results |-> 0]

\* the frame of gen_search: its arguments, whether it is the re-run of an
\* accepted offer (include_notes=True), and what the console has seen
GsLoc0 ==
    [fn |-> "", search_term |-> <<>>, table_name |-> NULL, max_results |-> NULL,
     include_notes |-> NULL, failing |-> NoFailure, notes_forced |-> FALSE,
     total_results |-> 0, tables_with_results |-> <<>>,
     offers |-> 0, reruns |-> 0, line |-> NULL,
     first_total |-> 0, first_tables |-> <<>>]

GsRet0 ==
    [fn |-> "", val |-> NULL, raised |-> FALSE, quit |-> FALSE, invalid |-> FALSE,
     search_term |-> <<>>, table_name |-> NULL, max_results |-> NULL,
     include_notes |-> NULL, failing |-> NoFailure,
     offers |-> 0, reruns |-> 0, line |-> NULL,
     first_total |-> 0, first_tables |-> <<>>,
     report |-> Report0]

\* faulty variant: returning from the search empties the lexicon
GsReturnedDeleting(o, fields) ==
    [o EXCEPT !.pc = "idle", !.loc = GsLoc0,
              !.db = [t \in DOMAIN o.db |-> IF t = "lexicon" THEN <<>> ELSE o.db[t]],
              !.ret = [field \in DOMAIN GsRet0 |->
                         IF field \in DOMAIN fields THEN fields[field]
                         ELSE IF field = "fn" THEN "gen_search"
                         ELSE IF field \in DOMAIN o.loc THEN o.loc[field]
                         ELSE GsRet0[field]]]

\* `return` of gen_search, or the exception it raises
GsReturned(o, fields) ==
    [o EXCEPT !.pc = "idle", !.loc = GsLoc0,
              !.ret = [field \in DOMAIN GsRet0 |->
                         IF field \in DOMAIN fields THEN fields[field]
                         ELSE IF field = "fn" THEN "gen_search"
                         ELSE IF field \in DOMAIN o.loc THEN o.loc[field]
                         ELSE GsRet0[field]]]

\* the part of gen_search after the first pass and the offer: the header,
\* the listings and the summary
search_and_display(d, l, include_notes, total_results, tables_with_results) ==
    With(second_pass(d, l.table_name, 1, tables_with_results, include_notes,
                     l.search_term, l.max_results, l.failing, SecondPass0), LAMBDA sp :
       [error |-> sp.error, summary |-> ~sp.error, include_notes |-> include_notes,
        total_results |-> total_results, tables_with_results |-> tables_with_results,
        listings |-> sp.listings, displayed_results |-> sp.displayed_results])

\* the report of a first pass that raised
search_error(include_notes) ==
    [Report0 EXCEPT !.error = TRUE, !.include_notes = include_notes]

\* include_notes of the running invocation: True in the re-run of an
\* accepted offer, else the caller's argument
include_notes_of(l) == IF l.notes_forced THEN B(TRUE) ELSE l.include_notes

\* gen_search once table_name is a tuple: first pass, then the offer or the
\* display.  The invocation that made a re-run ends by closing the cursor
\* of a connection it has closed, which raises.
GsStart(o, names) ==
    With([o.loc EXCEPT !.table_name = names], LAMBDA l0 :
    With(include_notes_of(l0), LAMBDA include_notes :
    With(first_pass(o.db, names, 1, include_notes, l0.search_term, l0.failing,
                    FirstPass0), LAMBDA fp :
    With([l0 EXCEPT !.total_results = fp.total_results,
                    !.tables_with_results = fp.tables_with_results,
                    !.first_total = IF l0.reruns = 0 THEN fp.total_results ELSE @,
                    !.first_tables = IF l0.reruns = 0 THEN fp.tables_with_results ELSE @],
         LAMBDA l :
       IF fp.error
       THEN GsReturned([o EXCEPT !.loc = l0],
                       [report |-> search_error(include_notes), raised |-> l0.reruns > 0])
       ELSE IF offers_notes(fp.total_results, include_notes, fp.tables_with_results)
       THEN At([o EXCEPT !.loc = l], "gs_offer")
       ELSE GsReturned([o EXCEPT !.loc = l],
                [report |-> search_and_display(o.db, l, include_notes,
                                fp.total_results, fp.tables_with_results),
                 raised |-> l.reruns > 0])))))

GsCall(p) == [Cur(p) EXCEPT !.loc = [GsLoc0 EXCEPT !.fn = "gen_search"], !.ret = GsRet0]

GenSearchCall(p) ==
    /\ pc[p] = "idle" /\ calls[p] < MaxSearchCalls
    /\ \E search_term \in SearchTerms, table_name \in TableNameArgs,
          max_results \in MaxResultsArgs, include_notes \in IncludeNotesArgs,
          failing \in FailureArgs :
         LET o == [GsCall(p) EXCEPT !.loc.search_term = search_term,
                                    !.loc.table_name = table_name,
                                    !.loc.max_results = max_results,
                                    !.loc.include_notes = include_notes,
                                    !.loc.failing = failing]
         IN  Apply(p, IF table_name = NULL THEN At(o, "gs_menu")
                      ELSE IF table_name[1] = "str" THEN GsStart(o, <<table_name[2]>>)
                      ELSE GsStart(o, table_name[2]))
    /\ Called(p)

\* "Enter table number (or 'q' to quit)"
GenSearchMenu(p) ==
    /\ pc[p] = "gs_menu"
    /\ \E raw \in SearchMenuInputs :
         LET choice == Strip(raw)
             all == sqlite_master(db)
             o == [Cur(p) EXCEPT !.loc.table_name = <<>>]
         IN  Apply(p,
               IF Lower(choice) = <<"q">> THEN GsReturned(o, [quit |-> TRUE, line |-> S(raw)])
               ELSE IF ~IsDigit(choice) THEN GsReturned(o, [invalid |-> TRUE, line |-> S(raw)])
               ELSE IF ToInt(choice) = Len(all) + 1 THEN GsStart(Cur(p), all)
               ELSE IF 1 <= ToInt(choice) /\ ToInt(choice) <= Len(all)
                    THEN GsStart(Cur(p), <<all[(ToInt(choice) - 1) + 1]>>)
                    ELSE GsReturned(o, [invalid |-> TRUE, line |-> S(raw)]))
    /\ UNCHANGED calls

\* faulty variant: every answer but 'n' accepts the offer
OfferAcceptedUnlessNo(response) == response # <<"n">>

\* `response == 'y'`
OfferAccepted(response) == response = <<"y">>

\* "Search Notes/Description fields too? (y/n)"
GenSearchOffer(p) ==
    /\ pc[p] = "gs_offer"
    /\ \E raw \in OfferInputs :
         LET l == [loc[p] EXCEPT !.offers = @ + 1, !.line = S(raw)]
             o == [Cur(p) EXCEPT !.loc = l]
         IN  Apply(p,
               IF OfferAccepted(StripLower(raw))
               THEN GsStart([o EXCEPT !.loc.notes_forced = TRUE, !.loc.reruns = @ + 1],
                            l.table_name)
               ELSE GsReturned(o,
                        [report |-> search_and_display(db, l, include_notes_of(l),
                                        l.total_results, l.tables_with_results),
                         raised |-> l.reruns > 0]))
    /\ UNCHANGED calls

SearchRows(t) ==
    CASE t = "bibliography" ->
            << [UID |-> I(1), Author |-> S(<<"b">>), Title |-> S(<<"a">>)] >>
      [] t = "definitions" ->
            << [UID |-> I(1), Lexicon_ID |-> I(1), Definition |-> S(<<"a">>),
                Type |-> S(<<"d">>), Source_ID |-> I(1)],
               [UID |-> I(2), Lexicon_ID |-> I(1), Definition |-> S(<<"b">>),
                Type |-> NULL, Source_ID |-> NULL] >>
      [] t = "journal" ->
            << [UID |-> I(1), Title |-> S(<<"a">>), Notes |-> S(<<"z">>)],
               [UID |-> I(2), Title |-> S(<<"b">>), Notes |-> S(<<"a">>)],
               [UID |-> I(3), Title |-> NULL, Notes |-> S(<<"z">>)],
               [UID |-> I(4), Title |-> S(<<"a", "b">>), Notes |-> NULL] >>
      [] t = "lexicon" ->
            << [UID |-> I(1), Term |-> S(<<"a">>)],
               [UID |-> I(2), Term |-> S(<<"a", "b">>)],
               [UID |-> I(3), Term |-> S(<<"b">>)] >>
      [] t = "related_terms" ->
            << [UID |-> I(1), Parent_ID |-> I(1), Child_ID |-> I(2)] >>

SearchDB(tables) == [t \in tables |-> SearchRows(t)]

InitSearch ==
    /\ db \in {SearchDB(SeqSet(TABLE_ORDER)), SearchDB(SeqSet(TABLE_ORDER) \ {"related_terms"})}
    /\ txn = [p \in Procs |-> NoTxn]
    /\ pc = [p \in Procs |-> "idle"]
    /\ loc = [p \in Procs |-> GsLoc0]
    /\ ret = [p \in Procs |-> GsRet0]
    /\ calls = [p \in Procs |-> 0]

\* one session running gen_search
NextSearch ==
    \/ GenSearchCall(1)
    \/ GenSearchMenu(1)
    \/ GenSearchOffer(1)

SpecSearch == InitSearch /\ [][NextSearch]_vars

(***************************************************************************)
(* Apostrophe normalization: _search_in_table normalizes a search term and *)
(* the engine applies the REGEXP callback to a text value.                 *)
(***************************************************************************)
MaxTermLen == 2

\* the apostrophe variants the comment of _normalize_search_term lists
APOSTROPHE_VARIANTS == {"U+0027", "U+2019", "U+02BB", "U+0060"}

NormChars == {"a"} \cup APOSTROPHE_VARIANTS

\* search terms and stored texts of one to MaxTermLen characters
NormTerms == UNION {[1..n -> NormChars] : n \in 1..MaxTermLen}

NormLoc0 == [fn |-> "", search_term |-> <<>>, text |-> <<>>, normalized_term |-> <<>>]

NormRet0 == [fn |-> "", search_term |-> <<>>, text |-> <<>>, matched |-> FALSE]

\* normalized_term = _normalize_search_term(search_term)
NormalizeTerm(p) ==
    /\ pc[p] = "normalize"
    /\ loc' = [loc EXCEPT ![p].normalized_term = normalize_search_term(loc[p].search_term)]
    /\ pc' = [pc EXCEPT ![p] = "regexp"]
    /\ UNCHANGED <<db, txn, ret, calls>>

\* `col REGEXP ?` on a stored text
RegexpText(p) ==
    /\ pc[p] = "regexp"
    /\ ret' = [ret EXCEPT ![p] =
                 [fn |-> "_search_in_table", search_term |-> loc[p].search_term,
                  text |-> loc[p].text,
                  matched |-> regex_search_case_insensitive(loc[p].normalized_term,
                                                            S(loc[p].text))]]
    /\ loc' = [loc EXCEPT ![p] = NormLoc0]
    /\ pc' = [pc EXCEPT ![p] = "idle"]
    /\ UNCHANGED <<db, txn, calls>>

\* one search of session 1: a term and a stored text
InitNorm ==
    /\ db = SearchDB({"lexicon"})
    /\ txn = [p \in Procs |-> NoTxn]
    /\ pc = [p \in Procs |-> IF p = 1 THEN "normalize" ELSE "idle"]
    /\ \E search_term \in NormTerms, text \in NormTerms :
          loc = [p \in Procs |->
                   IF p = 1 THEN [NormLoc0 EXCEPT !.fn = "_search_in_table",
                                                  !.search_term = search_term,
                                                  !.text = text]
                   ELSE NormLoc0]
    /\ ret = [p \in Procs |-> NormRet0]
    /\ calls = [p \in Procs |-> 0]

NextNorm ==
    \/ NormalizeTerm(1)
    \/ RegexpText(1)

SpecNorm == InitNorm /\ [][NextNorm]_vars

(***************************************************************************)
(* The REGEXP callbacks of the two modules, applied by the engine to a     *)
(* pattern and to the value of a column, which may be of any storage class.*)
(***************************************************************************)
\* the values SQLite hands to the callback: NULL, INTEGER, REAL, BLOB, TEXT
RegexpOperands ==
    {NULL, I(0), I(1), <<"real", 1>>, <<"blob", <<"a">>>>} \cup {S(t) : t \in NormTerms}

RegexpLoc0 == [fn |-> "", pattern |-> <<>>, string |-> NULL]

RegexpRet0 == [fn |-> "", pattern |-> <<>>, string |-> NULL, val |-> FALSE]

\* REGEXP as registered by _register_regex
RegexSearch(p) ==
    /\ pc[p] = "regexp_call" /\ loc[p].fn = "_regex_search"
    /\ ret' = [ret EXCEPT ![p] =
                 [fn |-> "_regex_search", pattern |-> loc[p].pattern,
                  string |-> loc[p].string,
                  val |-> regex_search(loc[p].pattern, loc[p].string)]]
    /\ loc' = [loc EXCEPT ![p] = RegexpLoc0]
    /\ pc' = [pc EXCEPT ![p] = "idle"]
    /\ UNCHANGED <<db, txn, calls>>

\* REGEXP as registered by _register_regex_local
RegexSearchCaseInsensitive(p) ==
    /\ pc[p] = "regexp_call" /\ loc[p].fn = "_regex_search_case_insensitive"
    /\ ret' = [ret EXCEPT ![p] =
                 [fn |-> "_regex_search_case_insensitive", pattern |-> loc[p].pattern,
                  string |-> loc[p].string,
                  val |-> regex_search_case_insensitive(
                              normalize_search_term(loc[p].pattern), loc[p].string)]]
    /\ loc' = [loc EXCEPT ![p] = RegexpLoc0]
    /\ pc' = [pc EXCEPT ![p] = "idle"]
    /\ UNCHANGED <<db, txn, calls>>

\* one evaluation of `column REGEXP ?` by session 1
InitRegexp ==
    /\ db = SearchDB({"lexicon"})
    /\ txn = [p \in Procs |-> NoTxn]
    /\ pc = [p \in Procs |-> IF p = 1 THEN "regexp_call" ELSE "idle"]
    /\ \E fn \in {"_regex_search", "_regex_search_case_insensitive"},
          pattern \in NormTerms, string \in RegexpOperands :
          loc = [p \in Procs |->
                   IF p = 1 THEN [fn |-> fn, pattern |-> pattern, string |-> string]
                   ELSE RegexpLoc0]
    /\ ret = [p \in Procs |-> RegexpRet0]
    /\ calls = [p \in Procs |-> 0]

NextRegexp ==
    \/ RegexSearch(1)
    \/ RegexSearchCaseInsensitive(1)

SpecRegexp == InitRegexp /\ [][NextRegexp]_vars

(***************************************************************************)
(* Insert, then search: add_entry('lexicon') and gen_search(term,          *)
(* 'lexicon') by one session on one database.                              *)
(***************************************************************************)
MaxTripCalls == 2

TripTerms == {<<"a">>, <<"a", "b">>, <<"z">>}

\* add_entry('lexicon')
AddLexiconCall(p) ==
    /\ pc[p] = "idle" /\ calls[p] < MaxTripCalls
    /\ Apply(p, AddBegin(Call(p, "add_entry"), "lexicon"))
    /\ Called(p)

\* gen_search(search_term, 'lexicon'), max_results and include_notes left
\* at their defaults
GenSearchLexicon(p) ==
    /\ pc[p] = "idle" /\ calls[p] < MaxTripCalls
    /\ \E search_term \in TripTerms :
         Apply(p, GsStart([GsCall(p) EXCEPT !.loc.search_term = search_term,
                                            !.loc.table_name = <<"str", "lexicon">>,
                                            !.loc.max_results = I(20)],
                          <<"lexicon">>))
    /\ Called(p)

\* a lexicon holding the terms given, and no other row
LexiconOf(terms) ==
    [t \in TableSet |->
        IF t = "lexicon" THEN [i \in 1..Len(terms) |-> [UID |-> I(i), Term |-> S(terms[i])]]
        ELSE <<>>]

InitTrip ==
    /\ db \in {LexiconOf(<<>>), LexiconOf(<< <<"z">> >>), LexiconOf(<< <<"a">>, <<"z">> >>),
               LexiconOf(<< <<"b", "a", "b">> >>)}
    /\ txn = [p \in Procs |-> NoTxn]
    /\ pc = [p \in Procs |-> "idle"]
    /\ loc = [p \in Procs |-> Loc0]
    /\ ret = [p \in Procs |-> NoRet]
    /\ calls = [p \in Procs |-> 0]

NextTrip ==
    \/ AddLexiconCall(1)
    \/ AddSimpleField(1)
    \/ AddConfirm(1)
    \/ GenSearchLexicon(1)

SpecTrip == InitTrip /\ [][NextTrip]_vars

(***************************************************************************)
(* Search and inspection: gen_search, the resolver's search,               *)
(* get_unique_values, database_info and validate_search_config, by one     *)
(* session on one database.                                                *)
(***************************************************************************)
MaxReadCalls == 2

\* a SQL statement as issued: its kind and the names interpolated into it
Sql(stmt, table, column) == [stmt |-> stmt, table |-> table, column |-> column]

RdRet0 ==
    [fn |-> "", val |-> NULL, raised |-> FALSE, open |-> FALSE, sql |-> <<>>,
     info |-> <<>>]

\* a call that runs to its end in one step
RdApply(p, r) ==
    /\ ret' = [ret EXCEPT ![p] = r]
    /\ loc' = [loc EXCEPT ![p] = Loc0]
    /\ pc' = [pc EXCEPT ![p] = "idle"]
    /\ UNCHANGED <<db, txn>>

\* get_unique_values: SELECT DISTINCT column FROM table, with no check of
\* either name and no cleanup when the statement raises
get_unique_values(d, table_name, column_name) ==
    IF table_name \notin DOMAIN d \/ column_name \notin table_columns(table_name)
    THEN [RdRet0 EXCEPT !.fn = "get_unique_values", !.raised = TRUE, !.open = TRUE,
                        !.sql = << Sql("SELECT DISTINCT", table_name, column_name) >>]
    ELSE [RdRet0 EXCEPT !.fn = "get_unique_values",
                        !.val = {d[table_name][i][column_name] :
                                    i \in 1..Len(d[table_name])},
                        !.sql = << Sql("SELECT DISTINCT", table_name, column_name) >>]

GetUniqueValues(p) ==
    /\ pc[p] = "idle" /\ calls[p] < MaxReadCalls
    /\ \E table_name \in {"lexicon", "journal", "nosuch"},
          column_name \in {"Term", "Notes", "UID"} :
         RdApply(p, get_unique_values(db, table_name, column_name))
    /\ Called(p)

\* _show_table_info: the line printed for one table, and its two PRAGMAs
show_table_info(table_name, show_columns) ==
    [table |-> table_name,
     num_columns |-> Len(pragma_table_info(table_name)),
     foreign_keys_info |-> [i \in 1..Len(foreign_key_list(table_name)) |->
                               foreign_key_list(table_name)[i].from],
     columns |-> IF show_columns THEN NamesOf(pragma_table_info(table_name)) ELSE <<>>,
     sql |-> << Sql("PRAGMA table_info", table_name, ""),
                Sql("PRAGMA foreign_key_list", table_name, "") >>]

RECURSIVE Flatten(_)
Flatten(qq) == IF qq = <<>> THEN <<>> ELSE Head(qq) \o Flatten(Tail(qq))

\* database_info(table_name, show_columns)
DatabaseInfo(p) ==
    /\ pc[p] = "idle" /\ calls[p] < MaxReadCalls
    /\ \E table_name \in {NoName, "lexicon", "definitions", "nosuch"},
          show_columns \in BOOLEAN :
         LET tables == IF table_name # NoName THEN <<table_name>> ELSE sqlite_master(db)
             info == [i \in 1..Len(tables) |-> show_table_info(tables[i], show_columns)]
         IN  RdApply(p, [RdRet0 EXCEPT !.fn = "database_info", !.info = info,
                                       !.sql = Flatten([i \in 1..Len(info) |-> info[i].sql])])
    /\ Called(p)

\* the validation of one configured table against PRAGMA table_info
validate_table(table) ==
    LET config == TABLE_SEARCH_CONFIG(table)
        cols == table_columns(table)
        Count(q, Ok(_)) == Len(SelectSeq(q, Ok))
        FkValid(fk) == /\ fk.field \in cols
                       /\ fk.display_field \in table_columns(fk.table)
        r == [table |-> table,
              valid_search |-> Count(config.search_fields, LAMBDA f : f \in cols),
              invalid_search |-> Count(config.search_fields, LAMBDA f : f \notin cols),
              valid_display |-> Count(config.display_fields, LAMBDA f : f \in cols),
              invalid_display |-> Count(config.display_fields, LAMBDA f : f \notin cols),
              valid_fks |-> Count(config.foreign_keys, FkValid),
              invalid_fks |-> Count(config.foreign_keys, LAMBDA fk : ~FkValid(fk))]
    IN  [table |-> r.table,
         valid_search |-> r.valid_search, invalid_search |-> r.invalid_search,
         valid_display |-> r.valid_display, invalid_display |-> r.invalid_display,
         valid_fks |-> r.valid_fks, invalid_fks |-> r.invalid_fks,
         has_errors |-> r.invalid_search + r.invalid_display + r.invalid_fks > 0]

\* validate_search_config(table_name)
ValidateSearchConfig(p) ==
    /\ pc[p] = "idle" /\ calls[p] < MaxReadCalls
    /\ \E table_name \in {NoName, "lexicon", "definitions", "journal"} :
         LET tables_to_check == IF table_name # NoName THEN <<table_name>>
                                ELSE <<"bibliography", "lexicon", "definitions">>
             checked == SelectSeq(tables_to_check, LAMBDA t : t \in CONFIGURED)
         IN  RdApply(p, [RdRet0 EXCEPT
                           !.fn = "validate_search_config",
                           !.val = [i \in 1..Len(checked) |-> validate_table(checked[i])],
                           !.sql = [i \in 1..Len(checked) |->
                                      Sql("PRAGMA table_info", checked[i], "")]])
    /\ Called(p)

\* gen_search(search_term, table_name), the other arguments at their defaults
GenSearchDefaultCall(p) ==
    /\ pc[p] = "idle" /\ calls[p] < MaxReadCalls
    /\ \E search_term \in SearchTerms, table_name \in {NoName, "lexicon", "journal"} :
         LET o == [GsCall(p) EXCEPT !.loc.search_term = search_term,
                                    !.loc.max_results = I(20)]
         IN  Apply(p, IF table_name = NoName THEN At(o, "gs_menu")
                      ELSE GsStart([o EXCEPT !.loc.table_name = <<"str", table_name>>],
                                   <<table_name>>))
    /\ Called(p)

\* _resolve_foreign_key('definitions', fk_column)
ResolveDefinitionsCall(p) ==
    /\ pc[p] = "idle" /\ calls[p] < MaxReadCalls
    /\ \E c \in {"Lexicon_ID", "Source_ID", "Definition"} :
         Apply(p, ResolveBegin([Call(p, "_resolve_foreign_key") EXCEPT
                                   !.loc.table_name = "definitions", !.loc.fk_column = c],
                               "top"))
    /\ Called(p)

\* the rows of both modules' tables: bibliography with all its columns
ReadDB ==
    [t \in SeqSet(TABLE_ORDER) |->
        IF t = "bibliography"
        THEN << [UID |-> I(1), Author |-> S(<<"b">>), Title |-> S(<<"a">>),
                 Citation |-> NULL] >>
        ELSE SearchRows(t)]

InitRead ==
    /\ db = ReadDB
    /\ txn = [p \in Procs |-> NoTxn]
    /\ pc = [p \in Procs |-> "idle"]
    /\ loc = [p \in Procs |-> Loc0]
    /\ ret = [p \in Procs |-> RdRet0]
    /\ calls = [p \in Procs |-> 0]

NextRead ==
    \/ GenSearchDefaultCall(1)
    \/ GenSearchMenu(1)
    \/ GenSearchOffer(1)
    \/ ResolveDefinitionsCall(1)
    \/ ResolveSearch(1)
    \/ ResolveRetry(1)
    \/ ResolveSelect(1)
    \/ GetUniqueValues(1)
    \/ DatabaseInfo(1)
    \/ ValidateSearchConfig(1)

SpecRead == InitRead /\ [][NextRead]_vars

(***************************************************************************)
(* _auto_detect_search_config on the schema of a table that has no entry   *)
(* in TABLE_SEARCH_CONFIG.                                                 *)
(***************************************************************************)
MaxCols == 3

DetectNames == {"UID", "Title", "Notes", "Source_ID", "Type", "Author"}

DetectTypes == {"TEXT", "VARCHAR", "CHAR", "INTEGER"}

\* the column lists PRAGMA table_info can give: names are distinct
DetectSchemas ==
    {q \in UNION {[1..n -> {Col(name, type, 0, IF name = "UID" THEN 1 ELSE 0) :
                               name \in DetectNames, type \in DetectTypes}] :
                     n \in 1..MaxCols} :
        \A i, j \in 1..Len(q) : i # j => q[i].name # q[j].name}

DetectLoc0 == [fn |-> "", columns |-> <<>>]

DetectRet0 == [fn |-> "", columns |-> <<>>, val |-> NULL]

AutoDetectSearchConfig(p) ==
    /\ pc[p] = "detect"
    /\ ret' = [ret EXCEPT ![p] =
                 [fn |-> "_auto_detect_search_config", columns |-> loc[p].columns,
                  val |-> auto_detect_columns(loc[p].columns)]]
    /\ loc' = [loc EXCEPT ![p] = DetectLoc0]
    /\ pc' = [pc EXCEPT ![p] = "idle"]
    /\ UNCHANGED <<db, txn, calls>>

\* one call by session 1, on one schema
InitDetect ==
    /\ db = SearchDB({"lexicon"})
    /\ txn = [p \in Procs |-> NoTxn]
    /\ pc = [p \in Procs |-> IF p = 1 THEN "detect" ELSE "idle"]
    /\ \E columns \in DetectSchemas :
          loc = [p \in Procs |->
                   IF p = 1 THEN [fn |-> "_auto_detect_search_config", columns |-> columns]
                   ELSE DetectLoc0]
    /\ ret = [p \in Procs |-> DetectRet0]
    /\ calls = [p \in Procs |-> 0]

NextDetect == AutoDetectSearchConfig(1)

SpecDetect == InitDetect /\ [][NextDetect]_vars

(***************************************************************************)
(* Properties.                                                             *)
(***************************************************************************)
Mutators == {"add_entry", "update_entry", "delete_entry"}

\* the failure value of a function
FailVal(fn) == IF fn = "add_entry" THEN NULL ELSE B(FALSE)

\* session p returns in this step
Returns(p) == pc'[p] = "idle" /\ (pc[p] # "idle" \/ calls'[p] # calls[p])

\* the function session p runs in this step
Running(p) == IF pc[p] # "idle" THEN loc[p].fn ELSE IF Returns(p) THEN ret'[p].fn ELSE loc'[p].fn

ConfirmPcs == {"add_confirm", "upd_confirm", "del_confirm"}

\* the final confirmation of fn was answered affirmatively by the raw line
Affirmative(fn, raw) ==
    IF fn = "delete_entry" THEN Strip(raw) = DELETE ELSE StripLower(raw) = <<"y">>

RowExists(d, t, uid) == \E i \in 1..Len(d[t]) : d[t][i]["UID"] = uid

\* C1 (as stated): delete_entry proceeds only when the confirmation line is
\* exactly DELETE; after any other line it has returned False without
\* issuing the DELETE.
C1_Original ==
    \A p \in Procs :
        ret[p].fn = "delete_entry" /\ ret[p].line # NULL /\ ret[p].line # S(DELETE)
            => ret[p].val = B(FALSE) /\ ~ret[p].rejected

\* C1 (amended): delete_entry issues the DELETE exactly when the confirmation
\* line, stripped of leading and trailing whitespace, is DELETE; after any
\* other line it returns False and the database is unchanged.
C1_DeleteNeedsLiteral ==
    [][\A p \in Procs :
         pc[p] = "del_confirm" /\ pc'[p] = "idle" =>
            IF Strip(ret'[p].line[2]) = DELETE
            THEN \/ ret'[p].rejected
                 \/ /\ ret'[p].val = B(TRUE)
                    /\ ~RowExists(db', loc[p].table_name, loc[p].uid)
            ELSE ret'[p].val = B(FALSE) /\ ~ret'[p].rejected /\ db' = db]_vars

C1_Witness ==
    /\ ret[1].fn = "delete_entry"
    /\ ret[1].line = S(Lower(DELETE))
    /\ ret[1].val = B(FALSE)

\* the (table, column, count) triples of the rows of other tables that
\* reference row uid of table t through a declared foreign key
ReferencingTriples(d, t, uid) ==
    {[table |-> x[1], column |-> x[2].from,
      count |-> Len(RowsWhere(d[x[1]], x[2].from, uid))] :
        x \in {y \in FksAgainst(t) :
                  y[1] # t /\ RowsWhere(d[y[1]], y[2].from, uid) # <<>>}}

\* C2: when delete_entry waits at its confirmation prompt, related_records
\* lists every (table, column, count) triple of a foreign key another table
\* declares against the target table whose count is above zero, each once,
\* and nothing else.
C2_EnumerationBeforeConfirm ==
    \A p \in Procs :
        pc[p] = "del_confirm" =>
            /\ {loc[p].related_records[i] : i \in 1..Len(loc[p].related_records)}
                   = ReferencingTriples(db, loc[p].table_name, loc[p].uid)
            /\ Len(loc[p].related_records)
                   = Cardinality(ReferencingTriples(db, loc[p].table_name, loc[p].uid))

C2_Witness ==
    /\ pc[1] = "del_confirm"
    /\ loc[1].table_name = "bibliography"
    /\ loc[1].related_records # <<>>

\* the statement session p issues at its confirmation prompt is rejected
EngineRejects(p) ==
    LET t == loc[p].table_name
    IN  CASE pc[p] = "add_confirm" ->
                InsertRejected(db, t, MakeRow(t, loc[p].entry_data))
          [] pc[p] = "upd_confirm" -> UpdateRejected(db, t, loc[p].uid, loc[p].updates)
          [] pc[p] = "del_confirm" -> DeleteRejected(db, t, loc[p].uid)
          [] OTHER -> FALSE

\* C3: when the INSERT, UPDATE or DELETE that add_entry, update_entry or
\* delete_entry issues is rejected by the engine, the function returns its
\* failure value and the database is as it was.
C3_RejectedStatementRollsBack ==
    [][\A p \in Procs :
         /\ pc[p] \in ConfirmPcs /\ pc'[p] = "idle"
         /\ Affirmative(loc[p].fn, ret'[p].line[2])
         /\ EngineRejects(p)
         => /\ ret'[p].rejected
            /\ ret'[p].val = FailVal(loc[p].fn)
            /\ db' = db
            /\ txn'[p] = NoTxn]_vars

C3_Witness ==
    /\ ret[1].fn = "delete_entry"
    /\ ret[1].rejected
    /\ ret[1].val = B(FALSE)

DefsOf(d, uid) == RowsWhere(d["definitions"], "Lexicon_ID", uid)

\* C5: new_lex is all-or-nothing: nothing is committed while it runs; when
\* it returns None the database is as it was and the transaction is gone;
\* when it returns a UID the lexicon row of that UID and all the definitions
\* entered in the invocation are committed in that one step.
C5_NewLexAllOrNothing ==
    [][\A p \in Procs :
         Running(p) = "new_lex" =>
            /\ pc'[p] # "idle" => db' = db
            /\ Returns(p) /\ ret'[p].val = NULL => db' = db /\ txn'[p] = NoTxn
            /\ Returns(p) /\ ret'[p].val # NULL =>
                  /\ ~RowExists(db, "lexicon", ret'[p].val)
                  /\ RowExists(db', "lexicon", ret'[p].val)
                  /\ Len(DefsOf(db', ret'[p].val)) = ret'[p].ndefs
                  /\ Len(db'["definitions"]) = Len(db["definitions"]) + ret'[p].ndefs
                  /\ txn'[p] = NoTxn]_vars

C5_Witness ==
    /\ ret[1].fn = "new_lex"
    /\ ret[1].val = NULL
    /\ ret[1].rejected
    /\ ret[1].ndefs >= 1

\* C6: every lexicon entry new_lex has committed has at least
\* one definition committed with it.
C6_Original ==
    \A p \in Procs :
        ret[p].fn = "new_lex" /\ ret[p].val # NULL => DefsOf(db, ret[p].val) # <<>>

\* n is one plus the largest UID of the rows, or 1 when there are none
IsNextIdentifier(n, rows) ==
    IF rows = <<>> THEN n = 1
    ELSE /\ n - 1 \in Uids(rows)
         /\ \A u \in Uids(rows) : u < n

\* C7: _get_next_uid(table) is 1 for an empty table and N+1 for a table
\* whose maximum UID is N; add_entry starts from that value, and after it
\* has inserted the row a repeated call gives N+2.
C7_NextIdentifier ==
    [][\A p \in Procs :
         /\ loc'[p].fn = "add_entry" /\ loc[p].next_uid = 0 /\ loc'[p].next_uid # 0
               => IsNextIdentifier(loc'[p].next_uid, db[loc'[p].table_name])
         /\ pc[p] = "add_confirm" /\ db' # db
               => /\ ret'[p].val = I(loc[p].next_uid)
                  /\ get_next_uid(db', loc[p].table_name) = loc[p].next_uid + 1]_vars

C7_Witness ==
    /\ loc[1].fn = "add_entry"
    /\ loc[1].table_name = "lexicon"
    /\ loc[1].next_uid = 4
    /\ calls[1] = 2

UniqueUids(d) == \A t \in TableSet : Cardinality(Uids(d[t])) = Len(d[t])

\* C8: with two sessions adding to the same table, no table ever holds two
\* rows of one UID; a session whose computed UID has been taken meanwhile
\* still reaches its confirmation, and its INSERT is rejected: it returns
\* None and the database is unchanged.
C8_ConcurrentAddKeepsUidsUnique ==
    [][/\ UniqueUids(db')
       /\ \A p \in Procs :
            /\ pc[p] = "add_confirm" /\ pc'[p] = "idle"
            /\ Affirmative("add_entry", ret'[p].line[2])
            /\ loc[p].next_uid \in Uids(db[loc[p].table_name])
            => ret'[p].val = NULL /\ ret'[p].rejected /\ db' = db]_vars

C8_Witness ==
    /\ ret[1].fn = "add_entry" /\ ret[2].fn = "add_entry"
    /\ ret[1].table_name = ret[2].table_name
    /\ ret[1].next_uid = ret[2].next_uid
    /\ ret[1].val = I(ret[1].next_uid)
    /\ ret[2].val = NULL /\ ret[2].rejected

\* the raw line session p typed in this step
Typed(p) == IF pc'[p] = "idle" THEN ret'[p].line[2] ELSE loc'[p].line[2]

\* the result list of the search the resolver of session p ran last
LatestResults(p) ==
    search_in_table(db, loc[p].ref_table, loc[p].search_term, DefaultMaxResults)

\* C9: in a direct call of the resolver, a valid 1-based index k typed at the
\* disambiguation prompt returns the UID of the k-th row of the latest
\* search, and every non-null value returned is the UID of a row of that
\* list; in add_entry the foreign key gets a value of that list or NULL.
C9_SelectedRowOfLatestSearch ==
    [][\A p \in Procs :
         /\ pc[p] = "fk_select" /\ loc[p].fn = "_resolve_foreign_key" =>
              LET k == ToInt(Strip(Typed(p)))
              IN  /\ IsDigit(Strip(Typed(p))) /\ 1 <= k /\ k <= Len(LatestResults(p))
                        => Returns(p) /\ ret'[p].val = LatestResults(p)[k]["UID"]
                  /\ Returns(p) /\ ret'[p].val # NULL
                        => \E i \in 1..Len(LatestResults(p)) :
                              ret'[p].val = LatestResults(p)[i]["UID"]
         /\ pc[p] # "fk_select" /\ Returns(p) /\ ret'[p].fn = "_resolve_foreign_key"
              => ret'[p].val = NULL
         /\ pc[p] = "fk_select" /\ loc[p].caller = "add_entry" /\ pc'[p] # "fk_search"
              => \/ loc'[p].entry_data[loc[p].fk_column] = NULL
                 \/ \E i \in 1..Len(LatestResults(p)) :
                       loc'[p].entry_data[loc[p].fk_column] = LatestResults(p)[i]["UID"]]_vars

C9_Witness ==
    /\ ret[1].fn = "_resolve_foreign_key"
    /\ ret[1].line = S(<<"1">>)
    /\ ret[1].val = I(2)

\* C10 (as stated): at the retry prompt 'y' returns to the search prompt
\* and every other line ends the resolver with null.
C10_Original ==
    [][\A p \in Procs :
         pc[p] = "fk_retry" /\ loc[p].fn = "_resolve_foreign_key" =>
            IF Typed(p) = <<"y">> THEN pc'[p] = "fk_search"
            ELSE Returns(p) /\ ret'[p].val = NULL]_vars

\* C10 (amended): the resolver follows the search / disambiguation state
\* machine on the stripped, lower-cased line: an empty search line ends with
\* null; a search without results leads to the retry prompt, one with
\* results to the disambiguation prompt; at the retry prompt y returns to
\* the search prompt and everything else ends with null; at the
\* disambiguation prompt s returns to the search prompt with nothing
\* selected and an empty line ends with null.
C10_ResolverStateMachine ==
    [][\A p \in Procs :
         loc[p].fn = "_resolve_foreign_key" /\ pc[p] # "idle" =>
            LET line == StripLower(Typed(p))
            IN  /\ pc[p] = "fk_search" =>
                      IF Strip(Typed(p)) = <<>> THEN Returns(p) /\ ret'[p].val = NULL
                      ELSE /\ pc'[p] \in {"fk_retry", "fk_select"}
                           /\ pc'[p] = "fk_retry" <=>
                                search_in_table(db, loc[p].ref_table, Strip(Typed(p)),
                                                DefaultMaxResults) = <<>>
                /\ pc[p] = "fk_retry" =>
                      IF line = <<"y">> THEN pc'[p] = "fk_search"
                      ELSE Returns(p) /\ ret'[p].val = NULL
                /\ pc[p] = "fk_select" /\ line = <<"s">>
                      => pc'[p] = "fk_search" /\ loc'[p].results = <<>>
                /\ pc[p] = "fk_select" /\ line = <<>>
                      => Returns(p) /\ ret'[p].val = NULL]_vars

C10_Witness ==
    /\ pc[1] = "fk_search"
    /\ loc[1].fn = "_resolve_foreign_key"
    /\ loc[1].line = S(<<"Y">>)

\* the state of a resolver that has not searched yet
FreshResolver(l) ==
    /\ l.results = <<>>
    /\ l.search_term = <<>>
    /\ ~l.skipped /\ ~l.quit /\ ~l.rejected
    /\ [l EXCEPT !.line = NULL, !.retried = FALSE]
          = [Loc0 EXCEPT !.fn = l.fn, !.table_name = l.table_name,
                         !.fk_column = l.fk_column, !.caller = l.caller,
                         !.ref_table = l.ref_table]

\* C11: in a direct call of the resolver, answering y after a search without
\* results brings the resolver back to the search prompt in the state of a
\* resolver that has not searched yet; a later search with exactly one
\* matching row followed by index 1 returns the identifier of that row.
C11_RetryThenResolve ==
    [][\A p \in Procs :
         loc[p].fn = "_resolve_foreign_key" =>
            /\ pc[p] = "fk_retry" =>
                  /\ LatestResults(p) = <<>>
                  /\ StripLower(Typed(p)) = <<"y">>
                        => pc'[p] = "fk_search" /\ FreshResolver(loc'[p])
            /\ pc[p] = "fk_select" /\ loc[p].retried
               /\ Len(LatestResults(p)) = 1 /\ Strip(Typed(p)) = <<"1">>
                  => /\ Returns(p)
                     /\ ret'[p].val = LatestResults(p)[1]["UID"]
                     /\ Len(RowsWhere(db[loc[p].ref_table], "UID", ret'[p].val)) = 1]_vars

C11_Witness ==
    /\ ret[1].fn = "_resolve_foreign_key"
    /\ ret[1].retried
    /\ ret[1].table_name = "definitions" /\ ret[1].fk_column = "Lexicon_ID"
    /\ ret[1].line = S(<<"1">>)
    /\ ret[1].val = I(2)

\* column c is a declared foreign key of table t
IsDeclaredFk(t, c) ==
    \E i \in 1..Len(foreign_key_list(t)) : foreign_key_list(t)[i].from = c

\* C12: a direct call of the resolver for a column that is not a declared
\* foreign key of the table returns null in the step of the call, before any
\* prompt is answered and any search is made; for a declared foreign key the
\* call waits at the search prompt.
C12_NotAForeignKey ==
    [][\A p \in Procs :
         pc[p] = "idle" /\ calls'[p] # calls[p] /\ Running(p) = "_resolve_foreign_key" =>
            IF pc'[p] = "idle"
            THEN /\ ~IsDeclaredFk(ret'[p].table_name, ret'[p].fk_column)
                 /\ ret'[p].val = NULL
                 /\ ret'[p].line = NULL
                 /\ ~ret'[p].skipped /\ ~ret'[p].retried
            ELSE /\ IsDeclaredFk(loc'[p].table_name, loc'[p].fk_column)
                 /\ pc'[p] = "fk_search"
                 /\ FreshResolver(loc'[p])]_vars

C12_Witness ==
    /\ ret[1].fn = "_resolve_foreign_key"
    /\ ret[1].table_name = "definitions" /\ ret[1].fk_column = "Definition"
    /\ ret[1].val = NULL
    /\ ret[1].line = NULL

\* a returned gen_search call of session p that got past the table menu
Searched(p) ==
    /\ pc[p] = "idle" /\ ret[p].fn = "gen_search"
    /\ ~ret[p].quit /\ ~ret[p].invalid

\* the notes fields of the requested tables that exist
RequestedNotes(d, table_name) ==
    {i \in 1..Len(table_name) :
        /\ table_name[i] \in DOMAIN d
        /\ get_notes_fields(search_config(table_name[i]).search_fields) # <<>>}

\* C13 (as stated): whenever gen_search is called with include_notes=None,
\* its first pass without the notes fields finds 0 to 4 matches in all, and
\* a requested table has notes fields, the call offers to search them too.
C13_Original ==
    \A p \in Procs :
       LET r == ret[p]
           fp == first_pass(db, r.table_name, 1, NULL, r.search_term, r.failing, FirstPass0)
       IN  /\ Searched(p) /\ r.include_notes = NULL
           /\ ~fp.error /\ fp.total_results \in 0..4
           /\ RequestedNotes(db, r.table_name) # {}
           => r.offers = 1

\* the rows of a table that the first pass (notes fields excluded) counts
FirstPassMatches(d, table, search_term) ==
    LET config == search_config(table)
        kept == SelectSeq(config.search_fields,
                          LAMBDA f : ~HasNotesKeyword(f) /\ f \in table_columns(table))
    IN  {row \in SeqSet(d[table]) :
            \E i \in 1..Len(kept) : regex_search(search_term, row[kept[i]])}

Declined(r) == r.line # NULL /\ StripLower(r.line[2]) # <<"y">>

\* C14: a gen_search whose first pass counts 2 matches in tables of which
\* one has notes fields makes the notes offer; when the answer is not 'y'
\* there is no re-run, notes stay excluded, the total is still 2, every row
\* listed is a first-pass match, and the summary is printed unless a result
\* query fails.
C14_DeclinedOfferKeepsCount ==
    \A p \in Procs :
       LET r == ret[p]
       IN  /\ Searched(p) /\ r.include_notes = NULL
           /\ r.first_total = 2
           /\ \E i \in 1..Len(r.first_tables) : r.first_tables[i].notes_fields # <<>>
           => /\ r.offers = 1
              /\ Declined(r) =>
                   /\ r.reruns = 0 /\ ~r.raised
                   /\ r.report.include_notes = NULL
                   /\ r.report.total_results = 2
                   /\ r.report.tables_with_results = r.first_tables
                   /\ \A i \in 1..Len(r.report.listings) :
                        LET listing == r.report.listings[i]
                        IN  \A k \in 1..Len(listing.rows) :
                               \E row \in FirstPassMatches(db, listing.table, r.search_term) :
                                  row["UID"] = listing.rows[k].uid
                   /\ r.report.displayed_results <= 2
                   /\ r.report.summary = ~r.report.error
                   /\ r.report.error => r.max_results = NULL \/ r.failing[1] = "result"

C14_Witness ==
    \E p \in Procs :
       /\ Searched(p) /\ ret[p].include_notes = NULL /\ ret[p].first_total = 2
       /\ ret[p].offers = 1 /\ Declined(ret[p])
       /\ ret[p].report.summary /\ ret[p].report.total_results = 2
       /\ ret[p].report.displayed_results = 2
       /\ Cardinality(FirstPassMatches(db, "journal", ret[p].search_term)) = 2
       /\ \E row \in SeqSet(db["journal"]) :
             /\ row \notin FirstPassMatches(db, "journal", ret[p].search_term)
             /\ regex_search(ret[p].search_term, row["Notes"])

\* C15: the answer to a notes offer ends the call; 'y' makes exactly one
\* re-run, with include_notes=True, and that re-run makes no offer: a call
\* prompts for notes at most once and nests at most one re-run.
C15_SingleLevelEscalation ==
    [][\A p \in Procs :
         /\ pc'[p] = "gs_offer" =>
               /\ pc[p] # "gs_offer"
               /\ loc'[p].offers = 0 /\ loc'[p].reruns = 0 /\ ~loc'[p].notes_forced
         /\ pc[p] = "gs_offer" =>
               /\ pc'[p] = "idle" /\ ret'[p].offers = 1
               /\ IF StripLower(ret'[p].line[2]) = <<"y">>
                  THEN ret'[p].reruns = 1 /\ ret'[p].report.include_notes = B(TRUE)
                  ELSE ret'[p].reruns = 0 /\ ret'[p].report.include_notes = NULL
         /\ pc'[p] = "idle" /\ ret'[p].fn = "gen_search" =>
               ret'[p].offers <= 1 /\ ret'[p].reruns <= ret'[p].offers]_vars

C15_Witness ==
    \E p \in Procs :
       /\ Searched(p) /\ ret[p].offers = 1 /\ ret[p].reruns = 1
       /\ ret[p].report.include_notes = B(TRUE) /\ ret[p].report.summary
       /\ ret[p].report.total_results > ret[p].first_total
       /\ ret[p].report.total_results < 5

\* the requested tables, other than t, that exist and hold a first-pass match
OtherTablesWithMatches(d, table_name, t, search_term) ==
    {table_name[i] : i \in {j \in 1..Len(table_name) :
                               /\ table_name[j] # t /\ table_name[j] \in DOMAIN d
                               /\ FirstPassMatches(d, table_name[j], search_term) # {}}}

ListedTables(report) == {report.listings[i].table : i \in 1..Len(report.listings)}

\* C16 (as stated): when the count query or the result query of one of
\* several requested tables fails, the other requested tables are still
\* searched and listed and the final summary is still printed.
C16_Original ==
    \A p \in Procs :
       LET r == ret[p]
       IN  /\ Searched(p) /\ Len(r.table_name) > 1
           /\ r.report.error /\ r.max_results # NULL
           /\ r.failing # NoFailure /\ r.failing[2] \in SeqSet(r.table_name)
           /\ OtherTablesWithMatches(db, r.table_name, r.failing[2], r.search_term) # {}
           => /\ r.report.summary
              /\ OtherTablesWithMatches(db, r.table_name, r.failing[2], r.search_term)
                    \subseteq ListedTables(r.report)

\* a junction or definitions lookup of this table's rows raises: the table
\* it reads is missing
LookupRaises(d, table) ==
    LET config == search_config(table)
    IN  \/ \E j \in 1..Len(config.related_tables) :
              config.related_tables[j].junction_table \notin DOMAIN d
        \/ config.definitions_table # "" /\ config.definitions_table \notin DOMAIN d

ResolvableFks(d, table, uid) ==
    LET fks == search_config(table).foreign_keys
        row == RowsWhere(d[table], "UID", uid)[1]
    IN  {i \in 1..Len(fks) :
            /\ fks[i].field \in table_columns(table) /\ fks[i].table \in DOMAIN d
            /\ Truthy(row[fks[i].field])
            /\ RowsWhere(d[fks[i].table], "UID", row[fks[i].field]) # <<>>}

\* C18 (as stated): every row rendered from a table whose configuration
\* declares foreign keys shows, for each declared column that refers to an
\* existing row, the label and the display value of that row.
C18_Original ==
    \A p \in Procs :
       Searched(p) =>
          \A i \in 1..Len(ret[p].report.listings) :
             LET listing == ret[p].report.listings[i]
                 fks == search_config(listing.table).foreign_keys
             IN  \A k \in 1..Len(listing.rows) :
                    \A f \in ResolvableFks(db, listing.table, listing.rows[k].uid) :
                       \E a \in 1..Len(listing.rows[k].fks) :
                          /\ listing.rows[k].fks[a].label = fks[f].label
                          /\ listing.rows[k].fks[a].value =
                                RowsWhere(db[fks[f].table], "UID",
                                    RowsWhere(db[listing.table], "UID",
                                              listing.rows[k].uid)[1][fks[f].field])[1]
                                   [fks[f].display_field]

RECURSIVE SumCounts(_)
SumCounts(dict) == IF dict = <<>> THEN 0 ELSE Head(dict).count + SumCounts(Tail(dict))

\* C19 (as stated): each listing shows at most max_results rows and at most
\* the table's match count; the summary's displayed count is at most its
\* total, and the total is the sum of the match counts of the tables the
\* summary counts.
C19_Original ==
    \A p \in Procs :
       LET r == ret[p]
       IN  Searched(p) =>
              /\ \A i \in 1..Len(r.report.listings) :
                    /\ r.report.listings[i].showing <= r.max_results[2]
                    /\ r.report.listings[i].showing <= r.report.listings[i].count
              /\ r.report.summary =>
                    /\ r.report.displayed_results <= r.report.total_results
                    /\ r.report.total_results = SumCounts(r.report.tables_with_results)

\* text is search_term with apostrophe variants exchanged for one another
SameUpToApostrophes(search_term, text) ==
    /\ Len(search_term) = Len(text)
    /\ \A i \in 1..Len(text) :
          \/ search_term[i] = text[i]
          \/ search_term[i] \in APOSTROPHE_VARIANTS /\ text[i] \in APOSTROPHE_VARIANTS

\* C20 (as stated): the normalized pattern of a term written with one of
\* the four apostrophe variants matches the same text written with any of
\* the other variants.
C20_Original ==
    \A p \in Procs :
       /\ pc[p] = "idle" /\ ret[p].fn = "_search_in_table"
       /\ SameUpToApostrophes(ret[p].search_term, ret[p].text)
       => ret[p].matched

\* C21: the REGEXP callback of either module returns false when its string
\* operand is not a string (NULL, integer, real, blob), whatever the pattern.
C21_NonStringIsNoMatch ==
    \A p \in Procs :
       /\ pc[p] = "idle"
       /\ ret[p].fn \in {"_regex_search", "_regex_search_case_insensitive"}
       /\ ~IsStr(ret[p].string)
       => ret[p].val = FALSE

C21_Witness ==
    \E p \in Procs :
       /\ pc[p] = "idle" /\ ret[p].fn = "_regex_search"
       /\ ret[p].string = <<"blob", <<"a">>>> /\ ret[p].pattern = <<"a">>
       /\ ret[p].val = FALSE

\* the lexicon row session p's add_entry has just inserted, if its last
\* call was an add_entry on lexicon that returned a UID
JustInserted(p) ==
    IF /\ pc[p] = "idle" /\ ret[p].fn = "add_entry" /\ ret[p].table_name = "lexicon"
       /\ ret[p].val # NULL
    THEN RowsWhere(db["lexicon"], "UID", ret[p].val)
    ELSE <<>>

\* C22: when add_entry has inserted a lexicon entry and gen_search is then
\* called on lexicon with that entry's term, no other row matching it, the
\* search reports exactly one match, lists exactly one row of lexicon, and
\* that row is the inserted one, displayed with its term.
C22_InsertThenSearch ==
    [][\A p \in Procs :
         /\ Len(JustInserted(p)) = 1
         /\ pc'[p] = "idle" /\ ret'[p].fn = "gen_search"
         /\ IsStr(JustInserted(p)[1]["Term"])
         /\ ret'[p].search_term = JustInserted(p)[1]["Term"][2]
         /\ \A i \in 1..Len(db["lexicon"]) :
               regex_search(ret'[p].search_term, db["lexicon"][i]["Term"])
                  => db["lexicon"][i] = JustInserted(p)[1]
         => /\ db' = db
            /\ ret'[p].report.summary /\ ~ret'[p].report.error /\ ~ret'[p].raised
            /\ ret'[p].report.total_results = 1
            /\ ret'[p].report.displayed_results = 1
            /\ Len(ret'[p].report.listings) = 1
            /\ ret'[p].report.listings[1].table = "lexicon"
            /\ Len(ret'[p].report.listings[1].rows) = 1
            /\ ret'[p].report.listings[1].rows[1].uid = ret[p].val
            /\ ret'[p].report.listings[1].rows[1].main = S(ret'[p].search_term)]_vars

C22_Witness ==
    \E p \in Procs :
       /\ pc[p] = "idle" /\ ret[p].fn = "gen_search" /\ calls[p] = 2
       /\ ret[p].search_term = <<"a", "b">>
       /\ Len(db["lexicon"]) = 3 /\ db["lexicon"][3]["Term"] = S(<<"a", "b">>)
       /\ ret[p].report.total_results = 1
       /\ ret[p].report.listings[1].rows[1].uid = I(3)

\* C23 (as stated): every call of a public function ends with its
\* connection and cursor closed and the cleanup raises no error, on every
\* exit path, the re-run of gen_search after an accepted notes offer
\* included.
C23_Original ==
    \A p \in Procs :
       pc[p] = "idle" /\ ret[p].fn = "gen_search" => ~ret[p].raised

\* C24 (as stated): every table or column name in a statement issued by
\* get_unique_values or database_info is a name of the live schema.
C24_Original ==
    \A p \in Procs :
       pc[p] = "idle" /\ ret[p].fn \in {"get_unique_values", "database_info"} =>
          \A i \in 1..Len(ret[p].sql) :
             /\ ret[p].sql[i].table \in DOMAIN db
             /\ ret[p].sql[i].column # "" =>
                   ret[p].sql[i].column \in table_columns(ret[p].sql[i].table)

C25_Original ==
    \A p \in Procs :
       /\ pc[p] \in {"lex_def", "src_input", "src_retry", "src_select"}
             /\ loc[p].ndefs >= 1 =>
             loc[p].def_uid \notin Uids(txn[p]["definitions"])
       /\ pc[p] = "idle" /\ ret[p].fn = "new_lex" /\ ret[p].ndefs >= 1 =>
             ret[p].val # NULL

\* C26 (as stated): update_entry records a change for a selected field, and
\* so goes on to the review and the UPDATE, only when the value supplied
\* for the field differs from the field's current value; it returns True
\* only after such a change.
C26_Original ==
    [][\A p \in Procs :
         Running(p) = "update_entry" /\ pc[p] # "idle" =>
            /\ pc'[p] # "idle" /\ loc'[p].updates # loc[p].updates =>
                  loc'[p].updates[loc[p].selected_field]
                     # loc[p].current_record[loc[p].selected_field]
            /\ Returns(p) /\ ret'[p].val = B(TRUE) /\ loc[p].field_name # NoName =>
                  db' # db]_vars

\* a system field (UID, timestamps) or an ignored field of table t
Protected(t, c) ==
    \/ c \in {"UID", "Created_At", "Modified_At", "Timestamp", "Timestamp_Created",
              "Timestamp_Modified", "Time_Stamp", "Date_Created", "Date_Modified"}
    \/ t = "bibliography" /\ c \in {"Citation", "Short_Citation"}

ResolverPcs == {"fk_search", "fk_retry", "fk_select"}

\* C27: in add_entry and update_entry no system or ignored field is ever
\* prompted for, selected for update or accepted as field_name; a step of
\* either function leaves those fields of every existing row as they were;
\* the entry add_entry inserts names the auto-generated UID and exactly the
\* columns that are neither system nor ignored, a foreign-key column getting
\* its value on the return of the resolver; the ignored columns of the new
\* row are NULL.
C27_ProtectedFieldsUntouched ==
    [][\A p \in Procs :
         Running(p) \in {"add_entry", "update_entry"} =>
            LET t == IF pc'[p] = "idle" THEN ret'[p].table_name ELSE loc'[p].table_name
            IN  /\ pc'[p] = "add_simple" =>
                      ~Protected(t, table_info(t)[loc'[p].col].name)
                /\ pc'[p] \in {"usf_fk", "usf_val"} => ~Protected(t, loc'[p].selected_field)
                /\ pc'[p] \in ResolverPcs => ~Protected(t, loc'[p].fk_column)
                /\ db' # db => \A tt \in DOMAIN db :
                      /\ Len(db'[tt]) >= Len(db[tt])
                      /\ \A i \in 1..Len(db[tt]) : \A c \in ColSet(tt) :
                            Protected(tt, c) => db'[tt][i][c] = db[tt][i][c]
                /\ pc[p] # "idle" /\ pc'[p] # "idle" /\ loc[p].fn = "add_entry" =>
                      \A c \in fk_column_names(t) :
                         c \in DOMAIN loc'[p].entry_data /\ c \notin DOMAIN loc[p].entry_data
                            => pc[p] \in ResolverPcs /\ loc[p].fk_column = c
                /\ pc[p] = "add_confirm" =>
                      /\ DOMAIN loc[p].entry_data
                            = {"UID"} \cup {c \in ColSet(t) : ~Protected(t, c)}
                      /\ loc[p].entry_data["UID"] = I(get_next_uid(db, t))
                      /\ Returns(p) /\ ret'[p].val # NULL =>
                            LET row == db'[t][Len(db'[t])]
                            IN  /\ Len(db'[t]) = Len(db[t]) + 1
                                /\ row["UID"] = ret'[p].val
                                /\ \A c \in ColSet(t) :
                                      row[c] = IF c \in DOMAIN loc[p].entry_data
                                               THEN loc[p].entry_data[c] ELSE NULL]_vars

C27_Witness ==
    /\ ret[1].fn = "add_entry"
    /\ ret[1].table_name = "bibliography"
    /\ ret[1].val # NULL
    /\ db["bibliography"][Len(db["bibliography"])]["Title"] # NULL
    /\ db["bibliography"][Len(db["bibliography"])]["Citation"] = NULL

\* C28: at the disambiguation prompt of a direct call of the resolver, a
\* line that is neither an index into the result list, nor s, nor blank
\* does not end the resolver and selects nothing: the next prompt is the
\* search prompt of the same column; and whoever called the resolver, going
\* back to the search prompt drops the result list and changes neither the
\* entry being built, the updates collected nor the database.
C28_InvalidSelectionSearchesAgain ==
    [][\A p \in Procs :
         pc[p] = "fk_select" =>
            /\ loc[p].fn = "_resolve_foreign_key" =>
                  LET line == Strip(Typed(p))
                      index == IsDigit(line) /\ 1 <= ToInt(line)
                                  /\ ToInt(line) <= Len(loc[p].results)
                  IN  ~index /\ line \notin {<<"s">>, <<>>} =>
                         /\ ~Returns(p)
                         /\ pc'[p] = "fk_search"
                         /\ loc'[p].fk_column = loc[p].fk_column
                         /\ loc'[p].ref_table = loc[p].ref_table
            /\ pc'[p] = "fk_search" /\ loc'[p].fk_column = loc[p].fk_column =>
                  /\ loc'[p].results = <<>>
                  /\ loc'[p].ref_table = loc[p].ref_table
                  /\ loc'[p].entry_data = loc[p].entry_data
                  /\ loc'[p].updates = loc[p].updates
                  /\ db' = db]_vars

C28_Witness ==
    /\ pc[1] = "fk_search"
    /\ loc[1].fn = "_resolve_foreign_key"
    /\ loc[1].line = S(<<"3">>)
    /\ loc[1].results = <<>>

\* C30: for every schema, the auto-detected configuration has display
\* fields that begin with UID and name no column twice, and its search
\* fields are exactly the columns of declared type TEXT, VARCHAR or CHAR
\* that are not UID and have no _ID in their name.
C30_AutoDetectedFields ==
    \A p \in Procs :
       ret[p].fn = "_auto_detect_search_config" =>
          LET columns == ret[p].columns
              display_fields == ret[p].val.display_fields
              search_fields == ret[p].val.search_fields
          IN  /\ display_fields[1] = "UID"
              /\ \A i, j \in 1..Len(display_fields) :
                    i # j => display_fields[i] # display_fields[j]
              /\ \A i, j \in 1..Len(search_fields) :
                    i # j => search_fields[i] # search_fields[j]
              /\ SeqSet(search_fields)
                    = {columns[i].name : i \in
                         {k \in 1..Len(columns) :
                             /\ columns[k].type \in {"TEXT", "VARCHAR", "CHAR"}
                             /\ columns[k].name # "UID"
                             /\ ~HasIdMarker(columns[k].name)}}

C30_Witness ==
    /\ ret[1].fn = "_auto_detect_search_config"
    /\ Len(ret[1].columns) = MaxCols
    /\ \E i \in 1..Len(ret[1].columns) :
          ret[1].columns[i].name = "Source_ID" /\ ret[1].columns[i].type = "TEXT"
    /\ \E i \in 1..Len(ret[1].columns) :
          ret[1].columns[i].name = "UID" /\ ret[1].columns[i].type = "TEXT"
    /\ ret[1].val.search_fields = <<"Notes">>
    /\ ret[1].val.display_fields = <<"UID", "Notes">>

====
